---- MODULE Spec2Model ----
(***************************************************************************)
(* Semantic-graph call resolution of the Leo compiler (leo-asg).           *)
(* CallExpression::from_ast converts a syntax call into a graph node,      *)
(* resolving the callee by one of three call forms and validating the     *)
(* expected type, the arity, the const parameters and the test            *)
(* annotation.  Nodes live in the Context's arena `exprs`; handles are     *)
(* arena indices, 0 is the empty handle (None).                           *)
(***************************************************************************)
EXTENDS Naturals, Sequences, FiniteSets

VARIABLES exprs, input, last, rewrites, context, program, outcome, operands, compiler

\* exprs, input, last, rewrites: call conversion; context, program, outcome:
\* function construction; operands: function comparison; compiler: the
\* compiler driver.
vars == <<exprs, input, last, rewrites, context, program, outcome, operands, compiler>>

----------------------------------------------------------------------------
(* Bounds of the model.                                                    *)

\* Largest number of arguments a syntax call supplies.
MaxArgs == 2
\* Largest number of slot rebindings a rewrite pass performs.
MaxRewrites == 1

----------------------------------------------------------------------------
(* Types and expected-type hints.                                          *)

IntegerTypes == {"u8", "u32"}
CircuitNames == {"C"}

\* Type::is_unit / Type::Circuit
IsCircuitType(t) == t \in CircuitNames

NoExpected == [kind |-> "None", type_ |-> ""]
PartialOf(t) == [kind |-> "Type", type_ |-> t]
PartialInteger == [kind |-> "Integer", type_ |-> ""]

\* PartialType::matches: a full type must be the same type, an integer
\* hint of unknown width matches every integer type.
Matches(expected, t) ==
    CASE expected.kind = "Type" -> expected.type_ = t
      [] expected.kind = "Integer" -> t \in IntegerTypes
      [] OTHER -> FALSE

PartialToString(expected) ==
    IF expected.kind = "Integer" THEN "integer" ELSE expected.type_

----------------------------------------------------------------------------
(* The declarations registered in the scopes the calls are converted in.  *)

Param(n, t, c) == [name |-> n, type_ |-> t, const_ |-> c]

Fn(id, n, out, args, circ, q, ann) ==
    [id |-> id, name |-> n, output |-> out, arguments |-> args,
     circuit |-> circ, qualifier |-> q, annotations |-> ann]

\* struct Function: the functions allocated in the Context, by handle.
Functions ==
    << Fn(11, "f", "u32", <<Param("x", "u32", FALSE)>>, "", "Static", <<>>),
       Fn(12, "g", "C", <<>>, "", "Static", <<>>),
       Fn(13, "h", "bool",
          <<Param("n", "u32", TRUE), Param("y", "u32", FALSE)>>, "", "Static", <<>>),
       Fn(14, "t", "u32", <<Param("x", "u32", FALSE)>>, "", "Static", <<"test">>),
       Fn(15, "f", "bool", <<>>, "", "Static", <<>>),
       Fn(16, "static_fn", "u32", <<>>, "C", "Static", <<>>),
       Fn(17, "m", "u32", <<Param("n", "u32", TRUE)>>, "C", "SelfRef", <<>>),
       Fn(18, "mm", "u32", <<>>, "C", "MutSelfRef", <<"inline", "test">>),
       Fn(19, "set", "bool", <<Param("x", "u32", FALSE)>>, "C", "MutSelfRef", <<>>),
       Fn(20, "k", "u32", <<Param("a", "u32", TRUE), Param("b", "u32", TRUE)>>,
          "", "Static", <<>>),
       Fn(21, "p", "bool", <<Param("a", "u32", FALSE), Param("b", "bool", FALSE)>>,
          "", "Static", <<>>) >>

FunctionNames == {"f", "g", "h", "t", "k", "p"}
MemberNames == {"static_fn", "m", "mm", "set", "x"}

\* Circuit.members: member name -> CircuitMember
CircuitMembers(c) ==
    [n \in MemberNames |->
        CASE n = "static_fn" -> [kind |-> "Function", body |-> 6]
          [] n = "m" -> [kind |-> "Function", body |-> 7]
          [] n = "mm" -> [kind |-> "Function", body |-> 8]
          [] n = "set" -> [kind |-> "Function", body |-> 9]
          [] OTHER -> [kind |-> "Variable", body |-> 0]]

Var(n, t, m, c) == [name |-> n, type_ |-> t, mutable |-> m, const_ |-> c]

\* InnerVariable: the variables allocated in the Context, by handle.
Variables ==
    << Var("x", "u32", FALSE, FALSE),
       Var("c", "C", FALSE, FALSE),
       Var("mc", "C", TRUE, FALSE) >>

\* Scope: 1 is the root scope, 2 a subscope of it that rebinds f.
Scopes ==
    << [parent |-> 0,
        functions |-> [n \in {"f", "g", "h", "t", "k", "p"} |->
                          CASE n = "f" -> 1 [] n = "g" -> 2 [] n = "h" -> 3
                            [] n = "t" -> 4 [] n = "k" -> 10 [] OTHER -> 11],
        circuits |-> [n \in {"C"} |-> "C"],
        variables |-> [n \in {"x", "c", "mc"} |->
                          CASE n = "x" -> 1 [] n = "c" -> 2 [] OTHER -> 3]],
       [parent |-> 1,
        functions |-> [n \in {"f"} |-> 5],
        circuits |-> [n \in {} |-> "C"],
        variables |-> [n \in {} |-> 0]] >>

ScopeIds == 1..Len(Scopes)

RECURSIVE resolve_function(_, _)
\* Scope::resolve_function: walk the parent chain, first match wins.
resolve_function(scope, name) ==
    IF scope = 0 THEN 0
    ELSE IF name \in DOMAIN Scopes[scope].functions
         THEN Scopes[scope].functions[name]
         ELSE resolve_function(Scopes[scope].parent, name)

RECURSIVE resolve_circuit(_, _)
\* Scope::resolve_circuit
resolve_circuit(scope, name) ==
    IF scope = 0 THEN ""
    ELSE IF name \in DOMAIN Scopes[scope].circuits
         THEN Scopes[scope].circuits[name]
         ELSE resolve_circuit(Scopes[scope].parent, name)

RECURSIVE resolve_variable(_, _)
\* Scope::resolve_variable
resolve_variable(scope, name) ==
    IF scope = 0 THEN 0
    ELSE IF name \in DOMAIN Scopes[scope].variables
         THEN Scopes[scope].variables[name]
         ELSE resolve_variable(Scopes[scope].parent, name)

\* is_test looking at the first annotation only.
is_test_FirstAnnotation(fn) ==
    Functions[fn].annotations # <<>> /\ Functions[fn].annotations[1] = "test"

\* Function::is_test
is_test(fn) ==
    \E i \in 1..Len(Functions[fn].annotations) : Functions[fn].annotations[i] = "test"

----------------------------------------------------------------------------
(* Syntax expressions (leo_ast::Expression).                               *)

Id(n) == [node |-> "Identifier", name |-> n]
Val(t) == [node |-> "Value", type_ |-> t]
AstCall(f, args) == [node |-> "Call", function |-> f, arguments |-> args]
MemberAccess(c, n) == [node |-> "CircuitMemberAccess", circuit |-> c, name |-> n]
StaticAccess(c, n) == [node |-> "CircuitStaticFunctionAccess", circuit |-> c, name |-> n]
TupleInit == [node |-> "TupleInit"]

----------------------------------------------------------------------------
(* Graph nodes (Expression) and the ExpressionNode operations.             *)

Constant(t) == [kind |-> "Constant", parent |-> 0, type_ |-> t]
VariableRef(v) == [kind |-> "VariableRef", parent |-> 0, variable |-> v]

\* struct CallExpression
CallExpression(span, function, target, arguments) ==
    [kind |-> "Call", parent |-> 0, span |-> span, function |-> function,
     target |-> target, arguments |-> arguments]

IsCall(arena, i) == arena[i].kind = "Call"

\* CallExpression::get_type
call_get_type(call) == Functions[call.function].output

\* ExpressionNode::get_type
get_type(arena, i) ==
    CASE arena[i].kind = "Constant" -> arena[i].type_
      [] arena[i].kind = "VariableRef" -> Variables[arena[i].variable].type_
      [] OTHER -> call_get_type(arena[i])

\* call_is_mut_ref treating the value a call returns as immutable.
call_is_mut_ref_Never(call) == FALSE

\* CallExpression::is_mut_ref
call_is_mut_ref(call) == TRUE

\* ExpressionNode::is_mut_ref
is_mut_ref(arena, i) ==
    CASE arena[i].kind = "Constant" -> FALSE
      [] arena[i].kind = "VariableRef" -> Variables[arena[i].variable].mutable
      [] OTHER -> call_is_mut_ref(arena[i])

\* `.all(|x| x.get().is_consty())` over the argument slots
AllConsty(flags) == \A i \in 1..Len(flags) : flags[i]

\* call_is_consty leaving the target out.
call_is_consty_ArgumentsOnly(target_consty, argument_consty) ==
    AllConsty(argument_consty)

\* CallExpression::is_consty, from the const-ness of the target (TRUE when
\* there is none) and of the expressions held in the argument slots
call_is_consty(target_consty, argument_consty) ==
    target_consty /\ AllConsty(argument_consty)

RECURSIVE is_consty(_, _)
\* ExpressionNode::is_consty
is_consty(arena, i) ==
    CASE arena[i].kind = "Constant" -> TRUE
      [] arena[i].kind = "VariableRef" -> Variables[arena[i].variable].const_
      [] OTHER ->
           call_is_consty(
               IF arena[i].target = 0 THEN TRUE ELSE is_consty(arena, arena[i].target),
               [k \in 1..Len(arena[i].arguments) |-> is_consty(arena, arena[i].arguments[k])])

NoValue == [some |-> FALSE, type_ |-> ""]
SomeValue(t) == [some |-> TRUE, type_ |-> t]

\* const_value evaluating a call without arguments.
call_const_value_Nullary(call) ==
    IF call.arguments = <<>> THEN SomeValue(Functions[call.function].output) ELSE NoValue

\* CallExpression::const_value
call_const_value(call) == NoValue

\* ExpressionNode::const_value
const_value(arena, i) ==
    CASE arena[i].kind = "Constant" -> SomeValue(arena[i].type_)
      [] arena[i].kind = "VariableRef" -> NoValue
      [] OTHER -> call_const_value(arena[i])

\* ExpressionNode::set_parent
set_parent(arena, i, parent) == [arena EXCEPT ![i].parent = parent]

RECURSIVE SetParents(_, _, _)
SetParents(arena, children, parent) ==
    IF children = <<>> THEN arena
    ELSE SetParents(set_parent(arena, Head(children), parent), Tail(children), parent)

\* enforce_parents setting the parent slot of the call itself as well.
enforce_parents_SelfToo(arena, i, expr) ==
    LET withTarget == IF arena[i].target # 0
                      THEN set_parent(arena, arena[i].target, expr)
                      ELSE arena
    IN set_parent(SetParents(withTarget, arena[i].arguments, expr), i, expr)

\* enforce_parents wiring the arguments and leaving the target out.
enforce_parents_ArgumentsOnly(arena, i, expr) ==
    SetParents(arena, arena[i].arguments, expr)

\* CallExpression::enforce_parents
enforce_parents(arena, i, expr) ==
    LET withTarget == IF arena[i].target # 0
                      THEN set_parent(arena, arena[i].target, expr)
                      ELSE arena
    IN SetParents(withTarget, arena[i].arguments, expr)

----------------------------------------------------------------------------
(* AsgConvertError values.                                                 *)

NoError == [kind |-> "none", expected |-> "", found |-> "", nexpected |-> 0,
            nfound |-> 0, span |-> <<>>]
Error(kind, span) == [NoError EXCEPT !.kind = kind, !.span = span]

unexpected_type(expected, found, span) ==
    [Error("unexpected_type", span) EXCEPT !.expected = expected, !.found = found]
unexpected_call_argument_count(expected, found, span) ==
    [Error("unexpected_call_argument_count", span) EXCEPT !.nexpected = expected,
                                                         !.nfound = found]

Ok(arena, val) == [arena |-> arena, ok |-> TRUE, val |-> val, err |-> NoError]
Fail(arena, err) == [arena |-> arena, ok |-> FALSE, val |-> 0, err |-> err]

----------------------------------------------------------------------------
(* CallExpression::from_ast.  `span` is the position of the syntax node:   *)
(* the path from the converted call, 0 for the callee expression and i for *)
(* the i-th argument.                                                      *)

NoCheckError == ""

\* MemberCallCheck without the rejection of Static members.
MemberCallCheck_StaticAllowed(qualifier, target_is_mut_ref) ==
    IF qualifier = "MutSelfRef" /\ ~target_is_mut_ref
    THEN "circuit_member_mut_call_invalid"
    ELSE NoCheckError

\* MemberCallCheck without the mutable-reference requirement of mut-self.
MemberCallCheck_MutUnchecked(qualifier, target_is_mut_ref) ==
    IF qualifier = "Static" THEN "circuit_static_call_invalid" ELSE NoCheckError

\* from_ast, line 123-135: the qualifier rules of `target.member(...)`
MemberCallCheck(qualifier, target_is_mut_ref) ==
    IF qualifier = "Static" THEN "circuit_static_call_invalid"
    ELSE IF qualifier = "MutSelfRef" /\ ~target_is_mut_ref
         THEN "circuit_member_mut_call_invalid"
         ELSE NoCheckError

\* from_ast, line 163-169: the qualifier rule of `Circuit::member(...)`
StaticCallCheck(qualifier) ==
    IF qualifier # "Static" THEN "circuit_member_call_invalid" ELSE NoCheckError

\* from_ast, line 116-141: member lookup of `target.member(...)`
MemberTarget(arena, circuit, name, target, span) ==
    IF name \notin DOMAIN CircuitMembers(circuit)
    THEN Fail(arena, Error("unresolved_circuit_member", span))
    ELSE LET member == CircuitMembers(circuit)[name] IN
         IF member.kind = "Function"
         THEN LET check == MemberCallCheck(Functions[member.body].qualifier,
                                           is_mut_ref(arena, target))
              IN IF check # NoCheckError
                 THEN Fail(arena, Error(check, span))
                 ELSE Ok(arena, [target |-> target, function |-> member.body])
         ELSE Fail(arena, Error("circuit_variable_call", span))

\* StaticTarget reporting a field as a non-static member function.
StaticTarget_FieldAsMember(arena, circuit, name, span) ==
    IF name \notin DOMAIN CircuitMembers(circuit)
    THEN Fail(arena, Error("unresolved_circuit_member", span))
    ELSE IF CircuitMembers(circuit)[name].kind = "Function"
            /\ Functions[CircuitMembers(circuit)[name].body].qualifier = "Static"
         THEN Ok(arena, [target |-> 0, function |-> CircuitMembers(circuit)[name].body])
         ELSE Fail(arena, Error("circuit_member_call_invalid", span))

\* from_ast, line 155-175: member lookup of `Circuit::member(...)`
StaticTarget(arena, circuit, name, span) ==
    IF name \notin DOMAIN CircuitMembers(circuit)
    THEN Fail(arena, Error("unresolved_circuit_member", span))
    ELSE LET member == CircuitMembers(circuit)[name] IN
         IF member.kind = "Function"
         THEN LET check == StaticCallCheck(Functions[member.body].qualifier)
              IN IF check # NoCheckError
                 THEN Fail(arena, Error(check, span))
                 ELSE Ok(arena, [target |-> 0, function |-> member.body])
         ELSE Fail(arena, Error("circuit_variable_call", span))

\* IdentifierTarget looking only into the local table of the current scope.
IdentifierTarget_LocalOnly(arena, scope, name, span) ==
    IF name \notin DOMAIN Scopes[scope].functions
    THEN Fail(arena, Error("unresolved_function", span))
    ELSE Ok(arena, [target |-> 0, function |-> Scopes[scope].functions[name]])

\* from_ast, line 94-99: a bare identifier names a function of the scope chain
IdentifierTarget(arena, scope, name, span) ==
    LET function == resolve_function(scope, name) IN
    IF function = 0
    THEN Fail(arena, Error("unresolved_function", span))
    ELSE Ok(arena, [target |-> 0, function |-> function])

\* ExpectedTypeCheck comparing the hint with full types only, so that an
\* integer hint of unknown width is taken to match.
ExpectedTypeCheck_FullTypesOnly(expected, function, span) ==
    IF expected.kind = "Type" /\ expected.type_ # Functions[function].output
    THEN unexpected_type(PartialToString(expected), Functions[function].output, span)
    ELSE NoError

\* from_ast, line 183-192: the expected type against the declared output
ExpectedTypeCheck(expected, function, span) ==
    IF expected.kind # "None" /\ ~Matches(expected, Functions[function].output)
    THEN unexpected_type(PartialToString(expected), Functions[function].output, span)
    ELSE NoError

\* ArgumentCountCheck reporting the two counts in the wrong order.
ArgumentCountCheck_Swapped(nargs, function, span) ==
    IF nargs # Len(Functions[function].arguments)
    THEN unexpected_call_argument_count(nargs, Len(Functions[function].arguments), span)
    ELSE NoError

\* ArgumentCountCheck rejecting only calls with too many arguments.
ArgumentCountCheck_OnlyExcess(nargs, function, span) ==
    IF nargs > Len(Functions[function].arguments)
    THEN unexpected_call_argument_count(Len(Functions[function].arguments), nargs, span)
    ELSE NoError

\* from_ast, line 193-199: the argument count against the parameter count
ArgumentCountCheck(nargs, function, span) ==
    IF nargs # Len(Functions[function].arguments)
    THEN unexpected_call_argument_count(Len(Functions[function].arguments), nargs, span)
    ELSE NoError

\* ConstArgumentCheck requiring a consty argument for every parameter.
ConstArgumentCheck_EveryParameter(const_, converted_is_consty, span) ==
    IF ~converted_is_consty THEN Error("unexpected_nonconst", span) ELSE NoError

\* from_ast, line 208-210: a const parameter takes a consty argument
ConstArgumentCheck(const_, converted_is_consty, span) ==
    IF const_ /\ ~converted_is_consty
    THEN Error("unexpected_nonconst", span)
    ELSE NoError

\* from_ast, line 215-217: a test function is not callable
TestFunctionCheck(function, span) ==
    IF is_test(function) THEN Error("call_test_function", span) ELSE NoError

RECURSIVE ExpressionFromAst(_, _, _, _, _)
RECURSIVE TargetFromAst(_, _, _, _)
RECURSIVE ArgumentsFromAst(_, _, _, _, _, _)
RECURSIVE NextArgument(_, _, _, _, _, _)
RECURSIVE CallFromAst(_, _, _, _, _)

\* <&Expression>::from_ast on a call: allocate the converted CallExpression
\* and wire the parents of its children.
AllocCall(r) ==
    IF ~r.ok THEN r
    ELSE Ok(enforce_parents(Append(r.arena, r.val), Len(r.arena) + 1, Len(r.arena) + 1),
            Len(r.arena) + 1)

\* <&Expression>::from_ast: convert by syntax kind, check the expected type
\* and allocate the node.
ExpressionFromAst(arena, scope, ast, expected, span) ==
    CASE ast.node = "Value" ->
           IF expected.kind # "None" /\ ~Matches(expected, ast.type_)
           THEN Fail(arena, unexpected_type(PartialToString(expected), ast.type_, span))
           ELSE Ok(Append(arena, Constant(ast.type_)), Len(arena) + 1)
      [] ast.node = "Identifier" ->
           IF resolve_variable(scope, ast.name) = 0
           THEN Fail(arena, Error("unresolved_reference", span))
           ELSE IF expected.kind # "None"
                   /\ ~Matches(expected, Variables[resolve_variable(scope, ast.name)].type_)
           THEN Fail(arena, unexpected_type(PartialToString(expected),
                         Variables[resolve_variable(scope, ast.name)].type_, span))
           ELSE Ok(Append(arena, VariableRef(resolve_variable(scope, ast.name))),
                   Len(arena) + 1)
      [] ast.node = "Call" -> AllocCall(CallFromAst(arena, scope, ast, expected, span))
      [] OTHER -> Fail(arena, Error("illegal_ast_structure", span))

\* MemberAccessTarget looking the member up without requiring a circuit type.
MemberAccessTarget_Untyped(t, name, span) ==
    IF ~t.ok THEN t
    ELSE MemberTarget(t.arena, get_type(t.arena, t.val), name, t.val, span)

\* from_ast, line 105-141: `target.member(...)` once the target is converted
MemberAccessTarget(t, name, span) ==
    IF ~t.ok THEN t
    ELSE IF ~IsCircuitType(get_type(t.arena, t.val))
    THEN Fail(t.arena, unexpected_type("circuit", get_type(t.arena, t.val), span))
    ELSE MemberTarget(t.arena, get_type(t.arena, t.val), name, t.val, span)

\* from_ast, line 148-175: `Circuit::member(...)`
StaticAccessTarget(arena, scope, callee, span) ==
    IF callee.circuit.node = "Identifier"
    THEN IF resolve_circuit(scope, callee.circuit.name) = ""
         THEN Fail(arena, Error("unresolved_circuit", Append(span, 0)))
         ELSE StaticTarget(arena, resolve_circuit(scope, callee.circuit.name),
                           callee.name, span)
    ELSE Fail(arena, unexpected_type("circuit", "None", span))

\* from_ast, line 93-182: the (target, function) pair of the call form
TargetFromAst(arena, scope, callee, span) ==
    CASE callee.node = "Identifier" ->
           IdentifierTarget(arena, scope, callee.name, span)
      [] callee.node = "CircuitMemberAccess" ->
           MemberAccessTarget(
               ExpressionFromAst(arena, scope, callee.circuit, NoExpected, Append(span, 0)),
               callee.name, span)
      [] callee.node = "CircuitStaticFunctionAccess" ->
           StaticAccessTarget(arena, scope, callee, span)
      [] OTHER -> Fail(arena, Error("illegal_ast_structure", <<>>))

\* ArgumentHint taking the type of the first parameter for every argument.
ArgumentHint_FirstParameter(params, i) == PartialOf(params[1].type_)

\* from_ast, line 204-207: the arguments are zipped with the parameters in
\* declaration order; the hint is `Some(argument.type_.clone().partial())`.
ArgumentHint(params, i) == PartialOf(params[i].type_)

\* from_ast, line 206-211: one converted argument against its parameter
ArgumentFromAst(r, const_, span) ==
    IF ~r.ok THEN r
    ELSE IF ConstArgumentCheck(const_, is_consty(r.arena, r.val), span) # NoError
    THEN Fail(r.arena, ConstArgumentCheck(const_, is_consty(r.arena, r.val), span))
    ELSE r

\* from_ast, line 201-213: the arguments, left to right, each converted with
\* its parameter's type as the hint; the first error ends the conversion.
ArgumentsFromAst(arena, scope, asts, params, converted, span) ==
    IF Len(converted) = Len(asts) THEN Ok(arena, converted)
    ELSE NextArgument(
             ArgumentFromAst(
                 ExpressionFromAst(arena, scope, asts[Len(converted) + 1],
                                   ArgumentHint(params, Len(converted) + 1),
                                   Append(span, Len(converted) + 1)),
                 params[Len(converted) + 1].const_,
                 Append(span, Len(converted) + 1)),
             scope, asts, params, converted, span)

NextArgument(r, scope, asts, params, converted, span) ==
    IF ~r.ok THEN r
    ELSE ArgumentsFromAst(r.arena, scope, asts, params, Append(converted, r.val), span)

\* from_ast, line 214-224: the test annotation, then the CallExpression
FinishCall(args, target, function, span) ==
    IF ~args.ok THEN args
    ELSE IF TestFunctionCheck(function, span) # NoError
    THEN Fail(args.arena, TestFunctionCheck(function, span))
    ELSE Ok(args.arena, CallExpression(span, function, target, args.val))

\* CallWithTarget testing the argument count before the expected type.
CallWithTarget_CountFirst(tf, scope, value, expected_type, span) ==
    IF ~tf.ok THEN tf
    ELSE IF ArgumentCountCheck(Len(value.arguments), tf.val.function, span) # NoError
    THEN Fail(tf.arena, ArgumentCountCheck(Len(value.arguments), tf.val.function, span))
    ELSE IF ExpectedTypeCheck(expected_type, tf.val.function, span) # NoError
    THEN Fail(tf.arena, ExpectedTypeCheck(expected_type, tf.val.function, span))
    ELSE FinishCall(
             ArgumentsFromAst(tf.arena, scope, value.arguments,
                              Functions[tf.val.function].arguments, <<>>, span),
             tf.val.target, tf.val.function, span)

\* from_ast, line 183-224: the checks that follow the resolution of the callee
CallWithTarget(tf, scope, value, expected_type, span) ==
    IF ~tf.ok THEN tf
    ELSE IF ExpectedTypeCheck(expected_type, tf.val.function, span) # NoError
    THEN Fail(tf.arena, ExpectedTypeCheck(expected_type, tf.val.function, span))
    ELSE IF ArgumentCountCheck(Len(value.arguments), tf.val.function, span) # NoError
    THEN Fail(tf.arena, ArgumentCountCheck(Len(value.arguments), tf.val.function, span))
    ELSE FinishCall(
             ArgumentsFromAst(tf.arena, scope, value.arguments,
                              Functions[tf.val.function].arguments, <<>>, span),
             tf.val.target, tf.val.function, span)

\* CallExpression::from_ast
CallFromAst(arena, scope, value, expected_type, span) ==
    CallWithTarget(TargetFromAst(arena, scope, value.function, Append(span, 0)),
                   scope, value, expected_type, span)

----------------------------------------------------------------------------
(* The syntax calls handed to the conversion.                              *)

RECURSIVE SeqsUpTo(_, _)
SeqsUpTo(S, n) ==
    IF n = 0 THEN {<<>>}
    ELSE LET shorter == SeqsUpTo(S, n - 1) IN
         shorter \cup {Append(q, x) : q \in {r \in shorter : Len(r) = n - 1}, x \in S}

ArgumentAsts ==
    {Val("u32"), Val("bool"), Id("x"), Id("zz"),
     AstCall(Id("f"), <<Val("u32")>>), AstCall(Id("f"), <<Id("x")>>)}

TargetAsts == {Id("c"), Id("mc"), Id("x"), Id("zz"), AstCall(Id("g"), <<>>)}

CalleeAsts ==
    {Id(n) : n \in FunctionNames \cup {"nope"}}
    \cup {MemberAccess(t, n) : t \in TargetAsts, n \in MemberNames \cup {"nope"}}
    \cup {StaticAccess(c, n) : c \in {Id("C"), Id("D"), Val("u32")},
                               n \in MemberNames \cup {"nope"}}
    \cup {TupleInit}

CallAsts == {AstCall(f, args) : f \in CalleeAsts, args \in SeqsUpTo(ArgumentAsts, MaxArgs)}

ExpectedTypes == {NoExpected, PartialOf("u32"), PartialOf("bool"), PartialInteger}

----------------------------------------------------------------------------
(* State: the arena of graph expressions, the syntax call under            *)
(* conversion with its scope and expected type, and the last operation.    *)

Idle == [op |-> "init", ok |-> FALSE, expr |-> 0, err |-> NoError, node |-> 0,
         slot |-> 0, was_consty |-> FALSE]

\* Before any function is constructed, compared or compiled.
NoOutcome == [op |-> "none"]
\* CompilerOptions::default: every optimization is enabled.
DefaultOptions == [constant_folding_enabled |-> TRUE]
\* `program` is the number of the syntax tree stored (0: Program::new), `asg`
\* the number of the syntax tree the stored graph was built from (0: None).
NoCompiler == [alive |-> FALSE, program |-> 0, asg |-> 0, options |-> DefaultOptions,
               file_contents |-> {}, parses |-> 0, op |-> "none", result |-> "none",
               events |-> <<>>]

Init ==
    /\ exprs = <<>>
    /\ input \in [scope : ScopeIds, value : CallAsts, expected_type : ExpectedTypes]
    /\ last = Idle
    /\ rewrites = 0
    /\ context = <<>>
    /\ program = <<>>
    /\ outcome = NoOutcome
    /\ operands = <<>>
    /\ compiler = NoCompiler

\* A caller converts the syntax call and places the returned CallExpression
\* in the arena; no parent is set yet.
FromAst ==
    /\ last.op = "init"
    /\ LET r == CallFromAst(exprs, input.scope, input.value, input.expected_type, <<>>) IN
       /\ exprs' = IF r.ok THEN Append(r.arena, r.val) ELSE r.arena
       /\ last' = [Idle EXCEPT !.op = "from_ast", !.ok = r.ok,
                               !.expr = IF r.ok THEN Len(r.arena) + 1 ELSE 0,
                               !.err = r.err]
    /\ UNCHANGED <<input, rewrites>>
    /\ UNCHANGED <<context, program, outcome, operands, compiler>>

\* The second pass: the call's children get the call's Expression as parent.
EnforceParents(i) ==
    /\ IsCall(exprs, i)
    /\ exprs' = enforce_parents(exprs, i, i)
    /\ last' = [last EXCEPT !.op = "enforce_parents", !.node = i, !.slot = 0,
                               !.was_consty = FALSE]
    /\ UNCHANGED <<input, rewrites>>
    /\ UNCHANGED <<context, program, outcome, operands, compiler>>

RECURSIVE Reaches(_, _, _)
\* Whether expression `to` is `from` or one of its operands, transitively.
Reaches(arena, from, to) ==
    \/ from = to
    \/ /\ IsCall(arena, from)
       /\ \/ arena[from].target # 0 /\ Reaches(arena, arena[from].target, to)
          \/ \E k \in 1..Len(arena[from].arguments) :
                Reaches(arena, arena[from].arguments[k], to)

\* A rewrite pass, run on a completed graph, rebinds one argument slot of a
\* call to another expression of the same type; `last` keeps the call's
\* const-ness before the change.
ReplaceArgument(i, slot, e) ==
    /\ last.ok
    /\ rewrites < MaxRewrites
    /\ IsCall(exprs, i)
    /\ ~Reaches(exprs, e, i)
    /\ slot \in 1..Len(exprs[i].arguments)
    /\ e # exprs[i].arguments[slot]
    /\ get_type(exprs, e) = get_type(exprs, exprs[i].arguments[slot])
    /\ exprs' = [exprs EXCEPT ![i].arguments[slot] = e]
    /\ last' = [last EXCEPT !.op = "replace", !.node = i, !.slot = slot,
                               !.was_consty = is_consty(exprs, i)]
    /\ rewrites' = rewrites + 1
    /\ UNCHANGED input
    /\ UNCHANGED <<context, program, outcome, operands, compiler>>

Next ==
    \/ FromAst
    \/ \E i \in 1..Len(exprs) : EnforceParents(i)

Spec == Init /\ [][Next]_vars

NextRewrite ==
    \/ FromAst
    \/ \E i \in 1..Len(exprs) : EnforceParents(i)
    \/ \E i \in 1..Len(exprs), slot \in 1..MaxArgs, e \in 1..Len(exprs) :
          ReplaceArgument(i, slot, e)

SpecRewrite == Init /\ [][NextRewrite]_vars

----------------------------------------------------------------------------
(* The converted call, as the properties below read it.                    *)

Converted == last.op # "init"
Callee == input.value.function
Form == Callee.node
Supplied == Len(input.value.arguments)
TopCall == exprs[last.expr]

\* The expected type is absent or matches the output type of function fn.
HintAccepts(fn) ==
    input.expected_type.kind = "None" \/ Matches(input.expected_type, Functions[fn].output)

HasTestAnnotation(fn) ==
    "test" \in {Functions[fn].annotations[i] : i \in 1..Len(Functions[fn].annotations)}

\* The callee resolves: the call form's own rules accept it.
Resolved == TargetFromAst(<<>>, input.scope, Callee, <<0>>)

\* The converted target of `target.member(...)`.
TargetExpr == ExpressionFromAst(<<>>, input.scope, Callee.circuit, NoExpected, <<0, 0>>)

\* `target.member(...)` whose target is of a circuit type that has the member.
MemberFormLookup ==
    /\ Form = "CircuitMemberAccess"
    /\ TargetExpr.ok
    /\ IsCircuitType(get_type(TargetExpr.arena, TargetExpr.val))
    /\ Callee.name \in DOMAIN CircuitMembers(get_type(TargetExpr.arena, TargetExpr.val))

\* `Circuit::member(...)` whose circuit name resolves to a circuit that has the member.
StaticFormLookup ==
    /\ Form = "CircuitStaticFunctionAccess"
    /\ Callee.circuit.node = "Identifier"
    /\ \E s \in ScopeIds : Callee.circuit.name \in DOMAIN Scopes[s].circuits
    /\ Callee.name \in DOMAIN CircuitMembers(Callee.circuit.name)

\* The member either lookup finds.
Member ==
    IF Form = "CircuitMemberAccess"
    THEN CircuitMembers(get_type(TargetExpr.arena, TargetExpr.val))[Callee.name]
    ELSE CircuitMembers(Callee.circuit.name)[Callee.name]

\* Every argument converts against the parameters of fn and satisfies its
\* const constraint (the argument count is that of fn).
ArgumentsValid(fn) ==
    ArgumentsFromAst(<<>>, input.scope, input.value.arguments,
                     Functions[fn].arguments, <<>>, <<>>).ok

RECURSIVE ChainOf(_)
\* The scopes from `scope` out to the root.
ChainOf(scope) == IF scope = 0 THEN {} ELSE {scope} \cup ChainOf(Scopes[scope].parent)

----------------------------------------------------------------------------
(* Properties.                                                             *)

\* C1 (as stated): every call that resolves to a function of M parameters
\* and supplies N # M arguments fails with the argument-count error
\* reporting expected M and found N.
C1_ArityAlwaysCountError ==
    (Converted /\ Resolved.ok
       /\ Supplied # Len(Functions[Resolved.val.function].arguments))
    => /\ ~last.ok
       /\ last.err.kind = "unexpected_call_argument_count"
       /\ last.err.nexpected = Len(Functions[Resolved.val.function].arguments)
       /\ last.err.nfound = Supplied

\* C1 (amended): such a call always fails; when no expected type is given
\* or the expected type matches the function's output type the error is the
\* argument-count error with expected M and found N, whatever the
\* arguments are; otherwise it is the unexpected-type error of the hint.
C1_ArityMismatch ==
    (Converted /\ Resolved.ok
       /\ Supplied # Len(Functions[Resolved.val.function].arguments))
    => /\ ~last.ok
       /\ HintAccepts(Resolved.val.function)
            => /\ last.err.kind = "unexpected_call_argument_count"
               /\ last.err.nexpected = Len(Functions[Resolved.val.function].arguments)
               /\ last.err.nfound = Supplied
       /\ ~HintAccepts(Resolved.val.function) => last.err.kind = "unexpected_type"

\* f(x: u32) called as f(1, 2) failed citing expected 1, found 2.
C1_Witness ==
    /\ Converted
    /\ input.scope = 1
    /\ input.value = AstCall(Id("f"), <<Val("u32"), Val("u32")>>)
    /\ last.err.kind = "unexpected_call_argument_count"
    /\ last.err.nexpected = 1
    /\ last.err.nfound = 2

\* C2: a `Circuit::member` call is accepted only for a Static member
\* function and otherwise fails with member-call-invalid; a `target.member`
\* call is accepted only for a non-Static member function and otherwise
\* fails with static-call-invalid.
C2_StaticInstanceSeparation ==
    Converted =>
      /\ (Form = "CircuitStaticFunctionAccess" /\ last.ok)
           => /\ StaticFormLookup /\ Member.kind = "Function"
              /\ TopCall.function = Member.body
              /\ Functions[TopCall.function].qualifier = "Static"
      /\ (Form = "CircuitMemberAccess" /\ last.ok)
           => /\ MemberFormLookup /\ Member.kind = "Function"
              /\ TopCall.function = Member.body
              /\ Functions[TopCall.function].qualifier # "Static"
      /\ (StaticFormLookup /\ Member.kind = "Function"
            /\ Functions[Member.body].qualifier # "Static")
           => ~last.ok /\ last.err.kind = "circuit_member_call_invalid"
      /\ (MemberFormLookup /\ Member.kind = "Function"
            /\ Functions[Member.body].qualifier = "Static")
           => ~last.ok /\ last.err.kind = "circuit_static_call_invalid"

\* c.static_fn() on an instance c of C failed with static-call-invalid.
C2_Witness ==
    /\ Converted
    /\ input.value = AstCall(MemberAccess(Id("c"), "static_fn"), <<>>)
    /\ last.err.kind = "circuit_static_call_invalid"

\* A `target.member(...)` call of a mut-self method.
MutSelfCall ==
    /\ Converted
    /\ MemberFormLookup
    /\ Member.kind = "Function"
    /\ Functions[Member.body].qualifier = "MutSelfRef"

TargetIsMutRef == is_mut_ref(TargetExpr.arena, TargetExpr.val)

\* C3 (as stated): a mut-self method invoked through a target that is not a
\* mutable reference fails with the mutability-violation error; invoked
\* through a mutable-reference target with matching arity and valid
\* arguments it succeeds.
C3_MutSelfSucceedsOnMutRef ==
    MutSelfCall =>
      /\ ~TargetIsMutRef
           => ~last.ok /\ last.err.kind = "circuit_member_mut_call_invalid"
      /\ (TargetIsMutRef
            /\ Supplied = Len(Functions[Member.body].arguments)
            /\ ArgumentsValid(Member.body))
           => last.ok

\* C3 (amended): the failure half as stated; through a mutable-reference
\* target the call succeeds when, besides matching arity and valid
\* arguments, the expected type (if any) matches the method's output type
\* and the method carries no test annotation.
C3_MutSelfEnforcement ==
    MutSelfCall =>
      /\ ~TargetIsMutRef
           => ~last.ok /\ last.err.kind = "circuit_member_mut_call_invalid"
      /\ (TargetIsMutRef
            /\ HintAccepts(Member.body)
            /\ Supplied = Len(Functions[Member.body].arguments)
            /\ ArgumentsValid(Member.body)
            /\ ~HasTestAnnotation(Member.body))
           => /\ last.ok
              /\ TopCall.function = Member.body
              /\ TopCall.target # 0

\* mc.set(1) through the mutable variable mc was converted.
C3_Witness ==
    /\ MutSelfCall
    /\ input.value = AstCall(MemberAccess(Id("mc"), "set"), <<Val("u32")>>)
    /\ TargetIsMutRef
    /\ last.ok

\* C4: in both member call forms, a member that is a field and not a
\* function fails with the circuit-variable-call error and no
\* CallExpression is produced for the call.
C4_VariableMemberCall ==
    (Converted /\ (MemberFormLookup \/ StaticFormLookup) /\ Member.kind = "Variable")
    => /\ ~last.ok
       /\ last.err.kind = "circuit_variable_call"
       /\ last.expr = 0
       /\ \A i \in 1..Len(exprs) : IsCall(exprs, i) => exprs[i].span # <<>>

\* C::x(...) on the field x of C failed with circuit-variable-call.
C4_Witness ==
    /\ Converted
    /\ StaticFormLookup
    /\ Member.kind = "Variable"
    /\ last.err.kind = "circuit_variable_call"

\* C5: a bare-identifier callee fails with the unresolved-function error
\* exactly when no scope of the chain binds it; when the call converts, it has no target and
\* its function is the binding of the innermost scope of the chain that
\* binds the name.
C5_IdentifierResolution ==
    (Converted /\ Form = "Identifier") =>
      /\ (\A s \in ChainOf(input.scope) : Callee.name \notin DOMAIN Scopes[s].functions)
           <=> (~last.ok /\ last.err.kind = "unresolved_function" /\ last.err.span = <<0>>)
      /\ last.ok
           => /\ TopCall.target = 0
              /\ \E s \in ChainOf(input.scope) :
                   /\ Callee.name \in DOMAIN Scopes[s].functions
                   /\ Scopes[s].functions[Callee.name] = TopCall.function
                   /\ \A b \in ChainOf(input.scope) :
                        Callee.name \in DOMAIN Scopes[b].functions => b \in ChainOf(s)

\* f() converted in the subscope resolved to the subscope's own f, not the
\* root's.
C5_Witness ==
    /\ Converted
    /\ input.scope = 2
    /\ input.value = AstCall(Id("f"), <<>>)
    /\ last.ok
    /\ TopCall.function = 5
    /\ TopCall.target = 0

\* The call reaches the conversion of its arguments: the callee resolves,
\* the expected type is accepted and the argument count matches.
ReachesArguments ==
    /\ Converted
    /\ Resolved.ok
    /\ HintAccepts(Resolved.val.function)
    /\ Supplied = Len(Functions[Resolved.val.function].arguments)

ParamsOf(fn) == Functions[fn].arguments

\* The arguments before the i-th all convert and satisfy their parameters.
PrefixConverted(i) ==
    ArgumentsFromAst(Resolved.arena, input.scope, SubSeq(input.value.arguments, 1, i - 1),
                     ParamsOf(Resolved.val.function), <<>>, <<>>)

\* The i-th argument converted with its parameter's type as the hint.
ConvertedArgument(i) ==
    ExpressionFromAst(PrefixConverted(i).arena, input.scope, input.value.arguments[i],
                      PartialOf(ParamsOf(Resolved.val.function)[i].type_), <<i>>)

\* C6: when the converted argument of a const parameter is not consty the
\* call fails with the non-const-argument error at that argument's span;
\* the non-const-argument error is never raised for the argument of a
\* non-const parameter.
C6_ConstParameter ==
    ReachesArguments =>
      /\ \A i \in 1..Supplied :
           (/\ ParamsOf(Resolved.val.function)[i].const_
            /\ PrefixConverted(i).ok
            /\ ConvertedArgument(i).ok
            /\ ~is_consty(ConvertedArgument(i).arena, ConvertedArgument(i).val))
           => /\ ~last.ok
              /\ last.err.kind = "unexpected_nonconst"
              /\ last.err.span = <<i>>
      /\ \A i \in 1..Supplied :
           (last.err.kind = "unexpected_nonconst" /\ last.err.span = <<i>>)
           => /\ ParamsOf(Resolved.val.function)[i].const_
              /\ ConvertedArgument(i).ok
              /\ ~is_consty(ConvertedArgument(i).arena, ConvertedArgument(i).val)

\* h(const n, y) called as h(x, x): the non-consty x for n was rejected at
\* the first argument, although the same x is acceptable for y.
C6_Witness ==
    /\ ReachesArguments
    /\ input.value = AstCall(Id("h"), <<Id("x"), Id("x")>>)
    /\ last.err.kind = "unexpected_nonconst"
    /\ last.err.span = <<1>>

CallNodes == {i \in 1..Len(exprs) : IsCall(exprs, i)}

\* C7: every CallExpression from_ast produced, the converted call and the
\* calls nested in its target and arguments, has as many argument slots as
\* its function has parameters and holds a consty argument for every const
\* parameter.
C7_CallWellFormed ==
    \A i \in CallNodes :
      /\ Len(exprs[i].arguments) = Len(ParamsOf(exprs[i].function))
      /\ \A k \in 1..Len(exprs[i].arguments) :
           (k <= Len(ParamsOf(exprs[i].function)) /\ ParamsOf(exprs[i].function)[k].const_)
           => is_consty(exprs, exprs[i].arguments[k])

\* h(const n, y) was converted with a nested call for each parameter: the
\* arena holds three calls, the outer one with two slots.
C7_Witness ==
    /\ last.ok
    /\ Cardinality(CallNodes) = 3
    /\ TopCall.function = 3
    /\ Len(TopCall.arguments) = 2
    /\ is_consty(exprs, TopCall.arguments[1])
    /\ ~is_consty(exprs, TopCall.arguments[2])

\* The callee resolves to a function carrying a test annotation.
TestFunctionCall ==
    /\ Converted
    /\ Resolved.ok
    /\ HasTestAnnotation(Resolved.val.function)

\* C8 (as stated): a call resolving to a test function never yields a
\* CallExpression, and when its arity and all its arguments are valid the
\* error is the call-test-function error.
C8_TestCallAlwaysTestError ==
    TestFunctionCall =>
      /\ ~last.ok
      /\ last.expr = 0
      /\ (Supplied = Len(ParamsOf(Resolved.val.function))
            /\ ArgumentsValid(Resolved.val.function))
           => last.err.kind = "call_test_function"

\* C8 (amended): a call resolving to a test function never yields a
\* CallExpression, and when the expected type (if any) matches the
\* function's output type and the arity and all arguments are valid, the
\* error is the call-test-function error.
C8_TestFunctionRejected ==
    TestFunctionCall =>
      /\ ~last.ok
      /\ last.expr = 0
      /\ \A i \in CallNodes : exprs[i].span # <<>>
      /\ (HintAccepts(Resolved.val.function)
            /\ Supplied = Len(ParamsOf(Resolved.val.function))
            /\ ArgumentsValid(Resolved.val.function))
           => last.err.kind = "call_test_function"

\* mc.mm(), a method whose second annotation is `test`, reached through a
\* mutable target with valid arity, failed with call-test-function.
C8_Witness ==
    /\ TestFunctionCall
    /\ Form = "CircuitMemberAccess"
    /\ Resolved.val.function = 8
    /\ last.err.kind = "call_test_function"

\* C9: a call is consty exactly when its target, if it has one, is consty
\* and every expression currently held in its argument slots is consty; a
\* call with neither target nor arguments is consty; after one argument
\* slot is rebound to a non-consty expression the call is not consty.
C9_CallConsty ==
    /\ \A i \in CallNodes :
         /\ is_consty(exprs, i)
              <=> /\ exprs[i].target # 0 => is_consty(exprs, exprs[i].target)
                  /\ \A k \in 1..Len(exprs[i].arguments) :
                       is_consty(exprs, exprs[i].arguments[k])
         /\ (exprs[i].target = 0 /\ exprs[i].arguments = <<>>) => is_consty(exprs, i)
    /\ (last.op = "replace"
          /\ ~is_consty(exprs, exprs[last.node].arguments[last.slot]))
         => ~is_consty(exprs, last.node)

\* A call that was consty had one argument slot rebound to a non-consty
\* expression and is no longer consty.
C9_Witness ==
    /\ last.op = "replace"
    /\ last.was_consty
    /\ ~is_consty(exprs, exprs[last.node].arguments[last.slot])
    /\ ~is_consty(exprs, last.node)

\* C10: const_value() of a call is None for every call, consty or not.
C10_CallConstValueNone ==
    \A i \in CallNodes : const_value(exprs, i) = NoValue

\* A consty call with a consty target and a consty argument, whose
\* const_value() is nevertheless None.
C10_Witness ==
    \E i \in CallNodes :
      /\ is_consty(exprs, i)
      /\ exprs[i].target # 0
      /\ exprs[i].arguments # <<>>
      /\ const_value(exprs, i) = NoValue

----------------------------------------------------------------------------
(* Function construction (leo-asg, program/function.rs).  The Context      *)
(* hands out ids and owns the variables, scopes, functions and statements; *)
(* handles are indices into its tables, 0 is the empty handle (None).     *)

\* Largest number of inputs a function declaration lists.
MaxInputs == 2

UnitType == "()"

\* Type::is_unit
is_unit(t) == t = UnitType

\* Context::get_id: the id handed out is ctx.next_id; `issued` lists every
\* id handed out so far, in order.
get_id(ctx) == [ctx EXCEPT !.next_id = @ + 1, !.issued = Append(@, ctx.next_id)]

\* struct InnerVariable
InnerVariable(id, name, type_, mutable, const_, declaration) ==
    [id |-> id, name |-> name, type_ |-> type_, mutable |-> mutable,
     const_ |-> const_, declaration |-> declaration]

\* Context::alloc_variable; the handle of the new variable is the last index.
alloc_variable(ctx, variable) == [ctx EXCEPT !.variables = Append(@, variable)]

\* Scope::make_subscope: a new scope with an id of its own, whose parent is
\* `scope`; its tables are empty and it has no circuit and no function.
make_subscope(ctx, scope) ==
    [get_id(ctx) EXCEPT !.scopes =
        Append(@, [id |-> ctx.next_id, parent_scope |-> scope, circuit_self |-> "",
                   variables |-> [n \in {} |-> 0], function |-> 0])]

\* insert(name, handle) on a name table: a present key is rebound.
MapInsert(m, name, handle) ==
    [n \in DOMAIN m \cup {name} |-> IF n = name THEN handle ELSE m[n]]

RECURSIVE scope_resolve_variable(_, _, _)
\* Scope::resolve_variable over the scopes of a Context: walk the parent
\* chain, first match wins.
scope_resolve_variable(ctx, scope, name) ==
    IF scope = 0 THEN 0
    ELSE IF name \in DOMAIN ctx.scopes[scope].variables
         THEN ctx.scopes[scope].variables[name]
         ELSE scope_resolve_variable(ctx, ctx.scopes[scope].parent_scope, name)

RECURSIVE resolve_current_function(_, _)
\* Scope::resolve_current_function: the function of the innermost scope of
\* the chain that belongs to one.
resolve_current_function(ctx, scope) ==
    IF scope = 0 THEN 0
    ELSE IF ctx.scopes[scope].function # 0
         THEN ctx.scopes[scope].function
         ELSE resolve_current_function(ctx, ctx.scopes[scope].parent_scope)

\* Scope::resolve_ast_type: a written type names a primitive type or a
\* circuit registered in the scope chain.
resolve_ast_type_ok(t) == t \in {"u32", "bool"} \cup CircuitNames

\* IndexMap::insert: a new key is appended, a present key keeps its position
\* and takes the new value.
IndexMapInsert(m, key, value) ==
    IF \E i \in 1..Len(m) : m[i].key = key
    THEN [i \in 1..Len(m) |-> IF m[i].key = key THEN [key |-> key, value |-> value] ELSE m[i]]
    ELSE Append(m, [key |-> key, value |-> value])

IndexMapKeys(m) == {m[i].key : i \in 1..Len(m)}
IndexMapGet(m, key) == (CHOOSE i \in 1..Len(m) : m[i].key = key)

\* leo_ast::FunctionInput
\* SelfKeyword, ConstSelfKeyword or MutSelfKeyword
SelfInput(kind) == [kind |-> kind]
FunctionInputVariable(identifier, type_, const_, mutable) ==
    [kind |-> "Variable", identifier |-> identifier, type_ |-> type_,
     const_ |-> const_, mutable |-> mutable]

\* leo_ast::Function
AstFunction(identifier, inputs, output, block, annotations) ==
    [identifier |-> identifier, input |-> inputs, output |-> output,
     block |-> block, annotations |-> annotations, span |-> <<identifier>>]

\* Function::init, line 84-112: one input of the declaration.  `st` carries
\* the Context, the qualifier and the argument map built so far.
InitInput(st, function_input) ==
    CASE function_input.kind = "SelfKeyword" -> [st EXCEPT !.qualifier = "SelfRef"]
      [] function_input.kind = "ConstSelfKeyword" -> [st EXCEPT !.qualifier = "ConstSelfRef"]
      [] function_input.kind = "MutSelfKeyword" -> [st EXCEPT !.qualifier = "MutSelfRef"]
      [] OTHER ->
           IF ~resolve_ast_type_ok(function_input.type_)
           THEN [st EXCEPT !.ctx = get_id(st.ctx),
                           !.err = Error("unresolved_circuit", <<function_input.type_>>)]
           ELSE [st EXCEPT
                   !.ctx = alloc_variable(get_id(st.ctx),
                               InnerVariable(st.ctx.next_id, function_input.identifier, function_input.type_,
                                             function_input.mutable, function_input.const_, "Parameter")),
                   !.arguments = IndexMapInsert(@, function_input.identifier,
                                                Len(st.ctx.variables) + 1)]

RECURSIVE InitInputs(_, _, _)
\* Function::init, line 83-114: the inputs in declaration order; the first
\* error ends the loop.
InitInputs(st, inputs, k) ==
    IF k > Len(inputs) \/ st.err # NoError THEN st
    ELSE InitInputs(InitInput(st, inputs[k]), inputs, k + 1)

\* struct Function
Function(id, name, output, arguments, scope, qualifier, span, annotations) ==
    [id |-> id, name |-> name, output |-> output, arguments |-> arguments,
     circuit |-> "", span |-> span, body |-> 0, scope |-> scope,
     qualifier |-> qualifier, annotations |-> annotations]

\* AllocFunction giving the function the id of its scope.
AllocFunction_ScopeId(ctx, value, output, arguments, qualifier, new_scope) ==
    [ctx EXCEPT
       !.functions = Append(@, Function(ctx.scopes[new_scope].id, value.identifier, output,
                                        arguments, new_scope, qualifier, value.span,
                                        value.annotations)),
       !.scopes[new_scope].function = Len(ctx.functions) + 1]

\* Function::init, line 119-131: the function takes a fresh id, its body is
\* None, and its scope refers back to it.
AllocFunction(ctx, value, output, arguments, qualifier, new_scope) ==
    [get_id(ctx) EXCEPT
       !.functions = Append(@, Function(ctx.next_id, value.identifier, output, arguments,
                                        new_scope, qualifier, value.span,
                                        value.annotations)),
       !.scopes[new_scope].function = Len(ctx.functions) + 1]

\* InitFinish accepting a self keyword in every scope.
InitFinish_SelfAnywhere(st, scope, value, output, new_scope) ==
    IF st.err # NoError THEN Fail(st.ctx, st.err)
    ELSE Ok(AllocFunction(st.ctx, value, output, st.arguments, st.qualifier, new_scope),
            Len(st.ctx.functions) + 1)

\* Function::init, line 116-133, once the inputs are through.
InitFinish(st, scope, value, output, new_scope) ==
    IF st.err # NoError THEN Fail(st.ctx, st.err)
    ELSE IF st.qualifier # "Static" /\ st.ctx.scopes[scope].circuit_self = ""
    THEN Fail(st.ctx, Error("invalid_self_in_global", value.span))
    ELSE Ok(AllocFunction(st.ctx, value, output, st.arguments, st.qualifier, new_scope),
            Len(st.ctx.functions) + 1)

\* Function::init
Function_init(ctx, scope, value) ==
    IF value.output # "" /\ ~resolve_ast_type_ok(value.output)
    THEN Fail(ctx, Error("unresolved_circuit", <<value.output>>))
    ELSE InitFinish(
             InitInputs([ctx |-> make_subscope(ctx, scope), qualifier |-> "Static",
                         arguments |-> <<>>, err |-> NoError],
                        value.input, 1),
             scope, value,
             IF value.output = "" THEN UnitType ELSE value.output,
             Len(ctx.scopes) + 1)

----------------------------------------------------------------------------
(* Statements: syntax (leo_ast::Statement), conversion of a function body  *)
(* (BlockStatement::from_ast) and the return-path reduction.               *)

Return(e) == [node |-> "Return", expression |-> e]
NoNext == [some |-> FALSE, block |-> <<>>]
SomeNext(b) == [some |-> TRUE, block |-> b]
Conditional(c, b, n) == [node |-> "Conditional", condition |-> c, block |-> b, next |-> n]
Definition(n, e) == [node |-> "Definition", variable_name |-> n, value |-> e]
ExpressionStatement(e) == [node |-> "Expression", expression |-> e]

\* <&Expression>::from_ast in a scope of the Context, for the value and
\* identifier expressions statements hold: the converted expression carries
\* its type.
ContextExpression(ctx, scope, ast, expected) ==
    CASE ast.node = "Value" ->
           IF expected.kind # "None" /\ ~Matches(expected, ast.type_)
           THEN Fail(ctx, unexpected_type(PartialToString(expected), ast.type_, <<>>))
           ELSE Ok(ctx, [kind |-> "Constant", type_ |-> ast.type_])
      [] ast.node = "Identifier" ->
           IF scope_resolve_variable(ctx, scope, ast.name) = 0
           THEN Fail(ctx, Error("unresolved_reference", <<ast.name>>))
           ELSE IF expected.kind # "None"
                   /\ ~Matches(expected,
                          ctx.variables[scope_resolve_variable(ctx, scope, ast.name)].type_)
           THEN Fail(ctx, unexpected_type(PartialToString(expected),
                         ctx.variables[scope_resolve_variable(ctx, scope, ast.name)].type_,
                         <<>>))
           ELSE Ok(ctx, [kind |-> "VariableRef",
                         variable |-> scope_resolve_variable(ctx, scope, ast.name),
                         type_ |-> ctx.variables[
                                       scope_resolve_variable(ctx, scope, ast.name)].type_])
      [] OTHER -> Fail(ctx, Error("illegal_ast_structure", <<>>))

\* The expected type of a returned expression: the output type of the
\* enclosing function.
ReturnHint(ctx, scope) ==
    IF resolve_current_function(ctx, scope) = 0 THEN NoExpected
    ELSE PartialOf(ctx.functions[resolve_current_function(ctx, scope)].output)

\* ReturnStatement::from_ast and ExpressionStatement::from_ast: the
\* statement holds the converted expression.
ExpressionHolder(e, kind) ==
    IF ~e.ok THEN e ELSE Ok(e.arena, [kind |-> kind, expression |-> e.val])

\* Scope::declare_variable: a name of the scope's own table is a duplicate
\* definition.
declare_variable(ctx, scope, name, handle) ==
    IF name \in DOMAIN ctx.scopes[scope].variables
    THEN Fail(ctx, Error("duplicate_variable_definition", <<name>>))
    ELSE Ok([ctx EXCEPT !.scopes[scope].variables = MapInsert(@, name, handle)], handle)

\* DefinitionStatement::from_ast: the value is converted, the variable takes
\* a fresh id and is declared in the scope of the statement.
DeclareDefined(d, value) ==
    IF ~d.ok THEN d
    ELSE Ok(d.arena, [kind |-> "Definition", variable |-> d.val, value |-> value])

DefinitionFromAst(e, scope, name) ==
    IF ~e.ok THEN e
    ELSE DeclareDefined(
             declare_variable(
                 alloc_variable(get_id(e.arena),
                     InnerVariable(e.arena.next_id, name, e.val.type_, FALSE, FALSE,
                                   "Definition")),
                 scope, name, Len(e.arena.variables) + 1),
             e.val)

RECURSIVE BlockFromAst(_, _, _)
RECURSIVE StatementsFromAst(_, _, _, _)
RECURSIVE NextStatement(_, _, _, _)
RECURSIVE StatementFromAst(_, _, _)
RECURSIVE ConditionalNext(_, _, _, _)

\* BlockStatement::from_ast: the block's statements are converted in a
\* subscope of their own.
WrapBlock(r, new_scope) ==
    IF ~r.ok THEN r
    ELSE Ok(r.arena, [kind |-> "Block", statements |-> r.val, scope |-> new_scope])

BlockFromAst(ctx, scope, block) ==
    WrapBlock(StatementsFromAst(make_subscope(ctx, scope), Len(ctx.scopes) + 1, block, <<>>),
              Len(ctx.scopes) + 1)

\* The statements of a block, in order; the first error ends the conversion.
StatementsFromAst(ctx, scope, asts, converted) ==
    IF Len(converted) = Len(asts) THEN Ok(ctx, converted)
    ELSE NextStatement(StatementFromAst(ctx, scope, asts[Len(converted) + 1]),
                       scope, asts, converted)

NextStatement(r, scope, asts, converted) ==
    IF ~r.ok THEN r
    ELSE StatementsFromAst(r.arena, scope, asts, Append(converted, r.val))

\* ConditionalStatement::from_ast, once both branches are converted
ConditionalFinish(r, condition, result) ==
    IF ~r.ok THEN r
    ELSE Ok(r.arena, [kind |-> "Conditional", condition |-> condition, result |-> result,
                      next |-> [some |-> TRUE, block |-> r.val]])

\* ConditionalStatement::from_ast, once the then-branch is converted
ConditionalNext(r, scope, ast, condition) ==
    IF ~r.ok THEN r
    ELSE IF ~ast.next.some
    THEN Ok(r.arena, [kind |-> "Conditional", condition |-> condition, result |-> r.val,
                      next |-> [some |-> FALSE, block |-> <<>>]])
    ELSE ConditionalFinish(BlockFromAst(r.arena, scope, ast.next.block), condition, r.val)

\* Statement::from_ast
StatementFromAst(ctx, scope, ast) ==
    CASE ast.node = "Return" ->
           ExpressionHolder(
               ContextExpression(ctx, scope, ast.expression, ReturnHint(ctx, scope)),
               "Return")
      [] ast.node = "Conditional" ->
           IF ~ContextExpression(ctx, scope, ast.condition, PartialOf("bool")).ok
           THEN ContextExpression(ctx, scope, ast.condition, PartialOf("bool"))
           ELSE ConditionalNext(BlockFromAst(ctx, scope, ast.block), scope, ast,
                    ContextExpression(ctx, scope, ast.condition, PartialOf("bool")).val)
      [] ast.node = "Definition" ->
           DefinitionFromAst(ContextExpression(ctx, scope, ast.value, NoExpected),
                             scope, ast.variable_name)
      [] OTHER ->
           ExpressionHolder(ContextExpression(ctx, scope, ast.expression, NoExpected),
                            "Expression")

\* The value of a reduction: whether the statement definitely returns, and
\* the errors collected; (FALSE, no errors) is the neutral element.
Reduction(returns, errors) == [returns |-> returns, errors |-> errors]
NeutralReduction == Reduction(FALSE, <<>>)

RECURSIVE ConcatErrors(_, _)
ConcatErrors(reductions, k) ==
    IF k > Len(reductions) THEN <<>>
    ELSE reductions[k].errors \o ConcatErrors(reductions, k + 1)

\* ReturnPathReducer::reduce_block: a block returns when one of its
\* statements does; statements after a returning one are unreachable code.
\* The errors of the statements come first, in order, then the block's own
\* (span, error) pair, whose span is the position of the first unreachable
\* statement in the block.
BlockReduction(reductions) ==
    IF reductions = <<>> THEN NeutralReduction
    ELSE IF \E i \in 1..(Len(reductions) - 1) : reductions[i].returns
    THEN Reduction(TRUE,
             ConcatErrors(reductions, 1)
             \o <<[span |-> <<1 + CHOOSE i \in 1..(Len(reductions) - 1) :
                                    /\ reductions[i].returns
                                    /\ \A j \in 1..(i - 1) : ~reductions[j].returns>>,
                   error |-> "unreachable_code"]>>)
    ELSE Reduction(reductions[Len(reductions)].returns, ConcatErrors(reductions, 1))

\* ReturnPathReducer::reduce_conditional_statement: the conjunction of the
\* two branches, a missing else branch counting as not returning.
ConditionalReduction(if_true, if_false) ==
    Reduction(if_true.returns /\ if_false.returns, if_true.errors \o if_false.errors)

RECURSIVE reduce_block(_)
RECURSIVE reduce_statement(_)

\* MonoidalDirector::reduce_block
reduce_block(block) ==
    BlockReduction([i \in 1..Len(block.statements) |-> reduce_statement(block.statements[i])])

\* MonoidalDirector::reduce_statement
reduce_statement(statement) ==
    CASE statement.kind = "Return" -> Reduction(TRUE, <<>>)
      [] statement.kind = "Conditional" ->
           ConditionalReduction(
               reduce_block(statement.result),
               IF statement.next.some THEN reduce_block(statement.next.block)
               ELSE NeutralReduction)
      [] OTHER -> NeutralReduction

----------------------------------------------------------------------------
(* Function::fill_from_ast.                                                *)

\* SelfVariable making every self variable mutable.
SelfVariable_Mutable(ctx, f) ==
    IF ctx.functions[f].qualifier = "Static" THEN ctx
    ELSE [alloc_variable(get_id(ctx),
              InnerVariable(ctx.next_id, "self", ctx.functions[f].circuit,
                            TRUE, FALSE, "Parameter"))
          EXCEPT !.scopes[ctx.functions[f].scope].variables =
                     MapInsert(@, "self", Len(ctx.variables) + 1)]

\* fill_from_ast, line 137-153: a function with a self qualifier gets a
\* `self` variable of its circuit's type, mutable for mut-self, bound in the
\* function's scope.
SelfVariable(ctx, f) ==
    IF ctx.functions[f].qualifier = "Static" THEN ctx
    ELSE [alloc_variable(get_id(ctx),
              InnerVariable(ctx.next_id, "self", ctx.functions[f].circuit,
                            ctx.functions[f].qualifier = "MutSelfRef", FALSE, "Parameter"))
          EXCEPT !.scopes[ctx.functions[f].scope].variables =
                     MapInsert(@, "self", Len(ctx.variables) + 1)]

\* Every entry of the argument map bound in the table of `scope`.
InsertAll(ctx, scope, arguments) ==
    [ctx EXCEPT !.scopes[scope].variables =
        [n \in DOMAIN ctx.scopes[scope].variables \cup IndexMapKeys(arguments) |->
            IF n \in IndexMapKeys(arguments)
            THEN arguments[IndexMapGet(arguments, n)].value
            ELSE ctx.scopes[scope].variables[n]]]

\* InsertArguments binding the parameters in the scope the function was
\* declared in.
InsertArguments_ParentScope(ctx, scope, arguments) ==
    InsertAll(ctx, ctx.scopes[scope].parent_scope, arguments)

\* fill_from_ast, line 154-156: the parameters are bound in the function's
\* own scope.
InsertArguments(ctx, scope, arguments) == InsertAll(ctx, scope, arguments)

\* MissingReturnCheck without the exemption of unit functions.
MissingReturnCheck_UnitIncluded(returns, output_is_unit) == ~returns

\* MissingReturnCheck with the two conditions joined by `or`.
MissingReturnCheck_Either(returns, output_is_unit) == ~returns \/ ~output_is_unit

\* fill_from_ast, line 160: `!reduce_block(..).0 && !self.output.is_unit()`
MissingReturnCheck(returns, output_is_unit) == ~returns /\ ~output_is_unit

\* fill_from_ast, line 176-177: the block is allocated as a statement and
\* becomes the body.
StoreBody(ctx, f, main_block) ==
    [ctx EXCEPT !.statements = Append(@, main_block),
                !.functions[f].body = Len(ctx.statements) + 1]

\* ReturnValidationError built from the last collected pair.
ReturnValidationError_Last(errors) ==
    [Error("function_return_validation", errors[Len(errors)].span)
     EXCEPT !.found = errors[Len(errors)].error]

\* fill_from_ast, line 168-174: the loop over the collected (span, error)
\* pairs returns in its first iteration.
ReturnValidationError(errors) ==
    [Error("function_return_validation", errors[1].span) EXCEPT !.found = errors[1].error]

\* CheckAndStore storing the body before the block is validated.
CheckAndStore_BodyFirst(ctx, f, value, main_block, reduction) ==
    IF MissingReturnCheck(reduction.returns, is_unit(ctx.functions[f].output))
    THEN Fail(StoreBody(ctx, f, main_block), Error("function_missing_return", value.span))
    ELSE IF reduction.errors # <<>>
    THEN Fail(StoreBody(ctx, f, main_block), ReturnValidationError(reduction.errors))
    ELSE Ok(StoreBody(ctx, f, main_block), f)

\* fill_from_ast, line 159-179: missing return, then the first collected
\* error, then the body.
CheckAndStore(ctx, f, value, main_block, reduction) ==
    IF MissingReturnCheck(reduction.returns, is_unit(ctx.functions[f].output))
    THEN Fail(ctx, Error("function_missing_return", value.span))
    ELSE IF reduction.errors # <<>>
    THEN Fail(ctx, ReturnValidationError(reduction.errors))
    ELSE Ok(StoreBody(ctx, f, main_block), f)

\* fill_from_ast, line 158-179, once the block is converted
FillBody(r, f, value) ==
    IF ~r.ok THEN r
    ELSE CheckAndStore(r.arena, f, value, r.val, reduce_block(r.val))

\* Function::fill_from_ast; `circuit.as_ref().unwrap()` at line 142 panics
\* when a function with a self qualifier has no circuit, after the id of
\* the self variable was taken.
fill_from_ast(ctx, f, value) ==
    IF ctx.functions[f].qualifier # "Static" /\ ctx.functions[f].circuit = ""
    THEN Fail(get_id(ctx), Error("panic", value.span))
    ELSE FillBody(
             BlockFromAst(
                 InsertArguments(SelfVariable(ctx, f), ctx.functions[f].scope,
                                 ctx.functions[f].arguments),
                 ctx.functions[f].scope, value.block),
             f, value)

----------------------------------------------------------------------------
(* The declarations a program is built from.                               *)

FunctionInputs ==
    {SelfInput("ConstSelfKeyword"), SelfInput("MutSelfKeyword"),
     FunctionInputVariable("x", "u32", FALSE, FALSE),
     FunctionInputVariable("y", "u32", FALSE, TRUE),
     FunctionInputVariable("z", "D", FALSE, FALSE)}

\* A written output type: none, a primitive, or an undeclared circuit.
OutputTypes == {"", "u32", "D"}

Blocks ==
    { <<>>,
      <<Return(Val("u32"))>>,
      <<Return(Val(UnitType))>>,
      <<Return(Id("x"))>>,
      <<Return(Id("zz"))>>,
      <<ExpressionStatement(Id("y"))>>,
      <<Conditional(Val("bool"), <<Return(Val("u32"))>>, SomeNext(<<Return(Val("u32"))>>))>>,
      <<Conditional(Val("bool"), <<Return(Val("u32"))>>, NoNext)>>,
      <<Conditional(Val("bool"), <<Return(Val("u32"))>>, SomeNext(<<ExpressionStatement(Id("x"))>>))>>,
      <<Conditional(Val("bool"), <<ExpressionStatement(Id("x"))>>, SomeNext(<<Return(Val("u32"))>>))>>,
      <<Conditional(Val("bool"),
                    <<Conditional(Val("bool"), <<Return(Val("u32"))>>, SomeNext(<<Return(Val("u32"))>>))>>,
                    SomeNext(<<Return(Val("u32"))>>))>>,
      <<Conditional(Id("x"), <<Return(Val("u32"))>>, SomeNext(<<Return(Val("u32"))>>))>>,
      <<Return(Val("u32")), ExpressionStatement(Id("x"))>>,
      <<Definition("x", Val("u32")), Return(Id("x"))>>,
      <<Definition("x", Val("u32")), Definition("x", Val("bool"))>>,
      <<Conditional(Val("bool"), <<Definition("x", Val("u32")), Return(Id("x"))>>,
                    SomeNext(<<Return(Id("y"))>>))>>,
      <<Return(Val(UnitType)), ExpressionStatement(Id("x"))>>,
      <<Conditional(Val("bool"), <<Return(Val("u32")), ExpressionStatement(Id("x"))>>, NoNext)>>,
      <<Conditional(Val("bool"),
                    <<Return(Val("u32")), ExpressionStatement(Id("x"))>>,
                    SomeNext(<<ExpressionStatement(Id("x")), Return(Val("u32")),
                               ExpressionStatement(Id("x"))>>))>> }

Declarations ==
    {AstFunction("f", inputs, output, block, <<>>) :
        inputs \in SeqsUpTo(FunctionInputs, MaxInputs), output \in OutputTypes,
        block \in Blocks}

\* The other function of the program, with the scope it is declared in: a
\* function g of the root scope or a member function of the circuit.
SiblingDeclarations ==
    {[scope |-> 1,
      value |-> AstFunction("g", <<FunctionInputVariable("x", "bool", FALSE, FALSE)>>, "",
                            <<>>, <<>>)],
     [scope |-> 2,
      value |-> AstFunction("f", <<SelfInput("SelfKeyword"),
                                   FunctionInputVariable("y", "u32", FALSE, FALSE)>>,
                            "u32", <<Return(Id("y"))>>, <<"test">>)]}

\* The Context a program is converted in: the root scope binds the variable
\* x, and a circuit C has a scope of its own for its member functions.
RootScope == 1
CircuitScope == 2

InitialContext ==
    [next_id |-> 3,
     issued |-> <<0, 1, 2>>,
     variables |-> <<InnerVariable(2, "x", "u32", FALSE, FALSE, "Definition")>>,
     scopes |-> <<[id |-> 0, parent_scope |-> 0, circuit_self |-> "",
                   variables |-> [n \in {"x"} |-> 1], function |-> 0],
                  [id |-> 1, parent_scope |-> RootScope, circuit_self |-> "C",
                   variables |-> [n \in {} |-> 0], function |-> 0]>>,
     functions |-> <<>>,
     statements |-> <<>>]

InitFunctions ==
    /\ exprs = <<>>
    /\ input = [scope |-> 1, value |-> AstCall(Id("f"), <<>>), expected_type |-> NoExpected]
    /\ last = Idle
    /\ rewrites = 0
    /\ context = InitialContext
    /\ program \in {<<[scope |-> s, value |-> d, function |-> 0, state |-> "declared"],
                       [scope |-> e.scope, value |-> e.value, function |-> 0,
                        state |-> "declared"]>> :
                       s \in {RootScope, CircuitScope}, d \in Declarations,
                       e \in SiblingDeclarations}
    /\ outcome = NoOutcome
    /\ operands = <<>>
    /\ compiler = NoCompiler

\* The program converter registers function k: Function::init, and for a
\* member function of a circuit the circuit is recorded in the function.
InitFunction(k) ==
    /\ program[k].state = "declared"
    /\ LET r == Function_init(context, program[k].scope, program[k].value) IN
       /\ context' = IF r.ok
                     THEN [r.arena EXCEPT !.functions[r.val].circuit =
                               context.scopes[program[k].scope].circuit_self]
                     ELSE r.arena
       /\ program' = [program EXCEPT ![k].function = r.val,
                                     ![k].state = IF r.ok THEN "inited" ELSE "init_failed"]
       /\ outcome' = [op |-> "init", index |-> k, ok |-> r.ok, err |-> r.err,
                      function |-> r.val, issued |-> Len(context.issued)]
    /\ UNCHANGED <<exprs, input, last, rewrites, operands, compiler>>

\* The program converter fills the body of the registered function k.
FillFromAst(k) ==
    /\ program[k].state = "inited"
    /\ LET r == fill_from_ast(context, program[k].function, program[k].value) IN
       /\ context' = r.arena
       /\ program' = [program EXCEPT ![k].state = IF r.ok THEN "filled" ELSE "fill_failed"]
       /\ outcome' = [op |-> "fill_from_ast", index |-> k, ok |-> r.ok, err |-> r.err,
                      function |-> program[k].function, issued |-> Len(context.issued)]
    /\ UNCHANGED <<exprs, input, last, rewrites, operands, compiler>>

NextFunctions ==
    \/ \E k \in 1..Len(program) : InitFunction(k)
    \/ \E k \in 1..Len(program) : FillFromAst(k)

SpecFunctions == InitFunctions /\ [][NextFunctions]_vars

----------------------------------------------------------------------------
(* Properties of function construction.                                    *)

\* The step fills the body of function k.
Fills(k) ==
    /\ program[k].state = "inited"
    /\ program'[k].state \in {"filled", "fill_failed"}

FunctionOf(k) == context.functions[program[k].function]

\* The conversion of the body block of function k, from the state before
\* the step: the block converted in the function's scope once self and the
\* parameters are bound.
BodyOf(k) ==
    BlockFromAst(
        InsertAll(SelfVariable(context, program[k].function), FunctionOf(k).scope,
                  FunctionOf(k).arguments),
        FunctionOf(k).scope, program[k].value.block)

RECURSIVE EveryPathReturns(_)
\* Every syntactic path through the block ends in a Return: one of its
\* statements is a Return, or an if/else whose two branches both are such
\* blocks.
EveryPathReturns(block) ==
    \E i \in 1..Len(block) :
       \/ block[i].node = "Return"
       \/ /\ block[i].node = "Conditional"
          /\ block[i].next.some
          /\ EveryPathReturns(block[i].block)
          /\ EveryPathReturns(block[i].next.block)

\* C11: fill_from_ast fails with the missing-return error exactly when the
\* body converts, its return-path reduction does not definitely return and
\* the output type is not unit; a unit function never fails with
\* missing-return, and neither does a non-unit function whose every path
\* ends in a Return.
C11_MissingReturn ==
    [][\A k \in 1..Len(program) :
         Fills(k) =>
           /\ (outcome'.err.kind = "function_missing_return")
                <=> /\ BodyOf(k).ok
                    /\ ~reduce_block(BodyOf(k).val).returns
                    /\ ~is_unit(FunctionOf(k).output)
           /\ is_unit(FunctionOf(k).output)
                => outcome'.err.kind # "function_missing_return"
           /\ (~is_unit(FunctionOf(k).output) /\ EveryPathReturns(program[k].value.block))
                => outcome'.err.kind # "function_missing_return"]_vars

\* A function declared -> u32 whose else branch has no Return failed with
\* missing-return.
C11_Witness ==
    /\ outcome.op = "fill_from_ast"
    /\ context.functions[outcome.function].output = "u32"
    /\ program[outcome.index].value.block =
         <<Conditional(Val("bool"), <<Return(Val("u32"))>>,
                       SomeNext(<<ExpressionStatement(Id("x"))>>))>>
    /\ outcome.err.kind = "function_missing_return"

RECURSIVE ConditionalsOf(_)
\* The Conditional statements of a converted block, nested ones included.
ConditionalsOf(block) ==
    UNION {IF block.statements[i].kind = "Conditional"
           THEN {block.statements[i]}
                \cup ConditionalsOf(block.statements[i].result)
                \cup (IF block.statements[i].next.some
                      THEN ConditionalsOf(block.statements[i].next.block) ELSE {})
           ELSE {} : i \in 1..Len(block.statements)}

IfReturn == Conditional(Val("bool"), <<Return(Val("u32"))>>, NoNext)
IfReturnElseReturn == Conditional(Val("bool"), <<Return(Val("u32"))>>, SomeNext(<<Return(Val("u32"))>>))

\* C12: a Conditional reduces to definitely-returns only if its then-branch
\* and its else-branch both do, and never without an else branch; a
\* non-unit function whose body is `if c { return } else { return }` passes
\* and one whose body is only `if c { return }` fails with missing-return.
C12_ConditionalReduction ==
    [][\A k \in 1..Len(program) :
         Fills(k) =>
           /\ BodyOf(k).ok =>
                \A c \in ConditionalsOf(BodyOf(k).val) :
                   /\ reduce_statement(c).returns
                        => /\ c.next.some
                           /\ reduce_block(c.result).returns
                           /\ reduce_block(c.next.block).returns
                   /\ ~c.next.some => ~reduce_statement(c).returns
           /\ (~is_unit(FunctionOf(k).output) /\ BodyOf(k).ok
                 /\ program[k].value.block = <<IfReturnElseReturn>>)
                => outcome'.ok
           /\ (~is_unit(FunctionOf(k).output) /\ BodyOf(k).ok
                 /\ program[k].value.block = <<IfReturn>>)
                => ~outcome'.ok /\ outcome'.err.kind = "function_missing_return"]_vars

\* A function declared -> u32 with the body `if c { return }` failed with
\* missing-return.
C12_Witness ==
    /\ outcome.op = "fill_from_ast"
    /\ context.functions[outcome.function].output = "u32"
    /\ program[outcome.index].value.block = <<IfReturn>>
    /\ outcome.err.kind = "function_missing_return"

\* C13: the body of a Function is None after Function::init, stays None
\* when fill_from_ast returns an error and is Some(Block) exactly when
\* fill_from_ast returned Ok; a body that is present passed the return-path
\* validation.
C13_BodyAllOrNothing ==
    /\ (outcome.op = "init" /\ outcome.ok) => context.functions[outcome.function].body = 0
    /\ outcome.op = "fill_from_ast"
         => (outcome.ok <=> context.functions[outcome.function].body # 0)
    /\ \A k \in 1..Len(program) :
         program[k].function # 0
           => (FunctionOf(k).body # 0 <=> program[k].state = "filled")
    /\ \A f \in 1..Len(context.functions) :
         context.functions[f].body # 0
           => /\ context.statements[context.functions[f].body].kind = "Block"
              /\ reduce_block(context.statements[context.functions[f].body]).errors = <<>>
              /\ \/ reduce_block(context.statements[context.functions[f].body]).returns
                 \/ is_unit(context.functions[f].output)

\* fill_from_ast converted a block with a statement after its Return,
\* failed on the return validation, and the body is still None.
C13_Witness ==
    /\ outcome.op = "fill_from_ast"
    /\ ~outcome.ok
    /\ outcome.err.kind = "function_return_validation"
    /\ context.functions[outcome.function].body = 0
    /\ \E k \in 1..Len(program) : program[k].state = "filled"

\* The (span, error) pairs the reducer collects for the body of function k.
CollectedErrors(k) == reduce_block(BodyOf(k).val).errors

\* C21: when the body converts and the reducer collected one or more
\* errors, fill_from_ast fails: with the missing-return error when the body
\* does not definitely return and the output is not unit, and otherwise,
\* for unit functions too, with the return-validation error built from the
\* first collected (span, error) pair; the return-validation error is
\* reported in no other case.
C21_FirstCollectedError ==
    [][\A k \in 1..Len(program) :
         Fills(k) =>
           /\ (BodyOf(k).ok /\ CollectedErrors(k) # <<>>)
                => /\ ~outcome'.ok
                   /\ (~reduce_block(BodyOf(k).val).returns /\ ~is_unit(FunctionOf(k).output))
                        => outcome'.err.kind = "function_missing_return"
                   /\ (reduce_block(BodyOf(k).val).returns \/ is_unit(FunctionOf(k).output))
                        => /\ outcome'.err.kind = "function_return_validation"
                           /\ outcome'.err.span = CollectedErrors(k)[1].span
                           /\ outcome'.err.found = CollectedErrors(k)[1].error
           /\ outcome'.err.kind = "function_return_validation"
                => BodyOf(k).ok /\ CollectedErrors(k) # <<>>]_vars

\* The body `if c { return 1; x; } else { x; return 1; x; }` of a function
\* -> u32 collected two errors, and the failure names the first: the
\* statement at position 2 of the then-branch.
C21_Witness ==
    /\ outcome.op = "fill_from_ast"
    /\ context.functions[outcome.function].output = "u32"
    /\ program[outcome.index].value.block =
         <<Conditional(Val("bool"),
                       <<Return(Val("u32")), ExpressionStatement(Id("x"))>>,
                       SomeNext(<<ExpressionStatement(Id("x")), Return(Val("u32")),
                                  ExpressionStatement(Id("x"))>>))>>
    /\ outcome.err.kind = "function_return_validation"
    /\ outcome.err.span = <<2>>
    /\ outcome.err.found = "unreachable_code"

----------------------------------------------------------------------------
(* impl PartialEq for Function.                                            *)

\* Largest id of the Function values compared.
MaxFunctionId == 3

\* Function::eq comparing the ids only.
Function_eq_IdOnly(self, other) == self.id = other.id

\* impl PartialEq for Function: fn eq
Function_eq(self, other) ==
    IF self.name # other.name THEN FALSE
    ELSE self.id = other.id

\* Function values as they exist in one or several Contexts, before and
\* after their body is filled.
FunctionValues ==
    {[Function(id, name, output, <<>>, 1, "Static", <<name>>, <<>>) EXCEPT !.body = b] :
        id \in 1..MaxFunctionId, name \in {"f", "g"}, output \in {"u32", UnitType},
        b \in {0, 1}}

InitEq ==
    /\ exprs = <<>>
    /\ input = [scope |-> 1, value |-> AstCall(Id("f"), <<>>), expected_type |-> NoExpected]
    /\ last = Idle
    /\ rewrites = 0
    /\ context = <<>>
    /\ program = <<>>
    /\ outcome = NoOutcome
    /\ operands \in [a : FunctionValues, b : FunctionValues, c : FunctionValues,
                     eq : {[done |-> FALSE]}]
    /\ compiler = NoCompiler

\* The three values are compared with ==, each with itself and with the
\* others, in both orders.
Compare ==
    /\ ~operands.eq.done
    /\ operands' = [operands EXCEPT !.eq =
           [done |-> TRUE,
            aa |-> Function_eq(operands.a, operands.a),
            ab |-> Function_eq(operands.a, operands.b),
            ba |-> Function_eq(operands.b, operands.a),
            bc |-> Function_eq(operands.b, operands.c),
            ac |-> Function_eq(operands.a, operands.c)]]
    /\ UNCHANGED <<exprs, input, last, rewrites, context, program, outcome, compiler>>

SpecEq == InitEq /\ [][Compare]_vars

\* C14: two Function values are equal exactly when they have the same name
\* and the same id, whatever their bodies and outputs are; equality is
\* reflexive, symmetric and transitive.
C14_FunctionEquality ==
    operands.eq.done =>
      /\ operands.eq.ab <=> (operands.a.name = operands.b.name /\ operands.a.id = operands.b.id)
      /\ operands.eq.aa
      /\ operands.eq.ab <=> operands.eq.ba
      /\ (operands.eq.ab /\ operands.eq.bc) => operands.eq.ac

\* Two functions f with the id 1, one -> u32 with a body and one of unit
\* output without, compared equal, and unequal to the function f of id 2.
C14_Witness ==
    /\ operands.eq.done
    /\ operands.a.name = "f" /\ operands.b.name = "f" /\ operands.c.name = "f"
    /\ operands.a.id = 1 /\ operands.b.id = 1 /\ operands.c.id = 2
    /\ operands.a.output # operands.b.output
    /\ operands.a.body # operands.b.body
    /\ operands.eq.ab
    /\ ~operands.eq.bc

----------------------------------------------------------------------------
(* Properties of parent wiring and of the expected type of calls.          *)

\* The direct children of call i: its target, if present, and its arguments.
ChildrenOf(i) ==
    (IF exprs[i].target # 0 THEN {exprs[i].target} ELSE {})
    \cup {exprs[i].arguments[k] : k \in 1..Len(exprs[i].arguments)}

\* C15: after enforce_parents was invoked on a call with the call's own
\* Expression, the parent slot of its target (if present) and of every
\* argument holds that Expression; a parent slot that is set names a call
\* that has the node as its target or as one of its arguments.
C15_ParentWiring ==
    /\ last.op = "enforce_parents"
         => \A c \in ChildrenOf(last.node) : exprs[c].parent = last.node
    /\ \A j \in 1..Len(exprs) :
         exprs[j].parent # 0
           => /\ IsCall(exprs, exprs[j].parent)
              /\ j \in ChildrenOf(exprs[j].parent)

\* The converted call mc.set(f(1)), with a target and an argument that is
\* itself a call, was wired: both children name it as their parent.
C15_Witness ==
    /\ last.op = "enforce_parents"
    /\ last.node = last.expr
    /\ TopCall.target # 0
    /\ exprs[TopCall.target].parent = last.expr
    /\ Len(TopCall.arguments) = 1
    /\ IsCall(exprs, TopCall.arguments[1])
    /\ exprs[TopCall.arguments[1]].parent = last.expr

\* C16: a call whose callee resolves and whose supplied expected type does
\* not match the function's output type fails with the unexpected-type
\* error naming the hint as expected and the output type as found; every
\* CallExpression built with an expected type, the converted call and each
\* call converted as an argument, has the function's output type as its
\* type, and that type matches the hint.
C16_ExpectedType ==
    /\ (Converted /\ Resolved.ok /\ input.expected_type.kind # "None"
          /\ ~Matches(input.expected_type, Functions[Resolved.val.function].output))
         => /\ ~last.ok
            /\ last.err.kind = "unexpected_type"
            /\ last.err.expected = PartialToString(input.expected_type)
            /\ last.err.found = Functions[Resolved.val.function].output
            /\ last.err.span = <<>>
    /\ (Converted /\ last.ok /\ input.expected_type.kind # "None")
         => /\ get_type(exprs, last.expr) = Functions[TopCall.function].output
            /\ Matches(input.expected_type, get_type(exprs, last.expr))
    /\ \A i \in CallNodes : \A k \in 1..Len(exprs[i].arguments) :
         IsCall(exprs, exprs[i].arguments[k])
           => /\ get_type(exprs, exprs[i].arguments[k])
                   = Functions[exprs[exprs[i].arguments[k]].function].output
              /\ Matches(PartialOf(ParamsOf(exprs[i].function)[k].type_),
                         get_type(exprs, exprs[i].arguments[k]))

\* g() -> C converted with the expected type u32 failed with
\* unexpected-type, expected u32, found C.
C16_Witness ==
    /\ Converted
    /\ input.value = AstCall(Id("g"), <<>>)
    /\ input.expected_type = PartialOf("u32")
    /\ last.err.kind = "unexpected_type"
    /\ last.err.expected = "u32"
    /\ last.err.found = "C"

\* C22: the CallExpression from_ast returns has an empty parent slot; a
\* later enforce_parents on a call changes the parent slots of its direct
\* children, target and arguments, to the given Expression and nothing
\* else: not the call's own parent slot, function, target or argument
\* slots, not any field of a deeper descendant or of another node, and no
\* node is added.
C22_ParentFrame ==
    [][/\ last'.op = "from_ast" /\ last'.ok
            => /\ exprs'[last'.expr].parent = 0
               /\ IsCall(exprs', last'.expr)
       /\ last'.op = "enforce_parents"
            => /\ Len(exprs') = Len(exprs)
               /\ \A j \in 1..Len(exprs) :
                    IF j \in ChildrenOf(last'.node)
                    THEN exprs'[j] = [exprs[j] EXCEPT !.parent = last'.node]
                    ELSE exprs'[j] = exprs[j]]_vars

\* The converted call mc.set(f(1)) was wired: its own parent slot is still
\* empty, its target and its argument f(1) name it as parent, and the
\* argument of f(1) still names f(1), not the outer call.
C22_Witness ==
    /\ last.op = "enforce_parents"
    /\ last.node = last.expr
    /\ TopCall.parent = 0
    /\ TopCall.target # 0
    /\ exprs[TopCall.target].parent = last.expr
    /\ Len(TopCall.arguments) = 1
    /\ IsCall(exprs, TopCall.arguments[1])
    /\ exprs[TopCall.arguments[1]].parent = last.expr
    /\ Len(exprs[TopCall.arguments[1]].arguments) = 1
    /\ exprs[exprs[TopCall.arguments[1]].arguments[1]].parent = TopCall.arguments[1]

\* Graph node `node` is what syntax expression `ast` converts to.
Describes(ast, node) ==
    CASE ast.node = "Value" -> node.kind = "Constant" /\ node.type_ = ast.type_
      [] ast.node = "Identifier" ->
           node.kind = "VariableRef" /\ Variables[node.variable].name = ast.name
      [] ast.node = "Call" ->
           node.kind = "Call" /\ Functions[node.function].name = ast.function.name
      [] OTHER -> FALSE

\* C23: a converted call holds the function and the optional target its
\* call form resolves to and one argument slot per supplied argument; the
\* i-th slot holds the conversion of the i-th syntax argument with the
\* declared type of the i-th parameter as the hint, so its type is that
\* parameter's type, and the slots follow the source order.
C23_ArgumentsInOrder ==
    (Converted /\ last.ok) =>
      /\ Resolved.ok
      /\ TopCall.function = Resolved.val.function
      /\ TopCall.target = Resolved.val.target
      /\ TopCall.target # 0 <=> Form = "CircuitMemberAccess"
      /\ Len(TopCall.arguments) = Supplied
      /\ Supplied = Len(ParamsOf(TopCall.function))
      /\ \A i \in 1..Supplied :
           /\ ConvertedArgument(i).ok
           /\ TopCall.arguments[i] = ConvertedArgument(i).val
           /\ Describes(input.value.arguments[i], exprs[TopCall.arguments[i]])
           /\ get_type(exprs, TopCall.arguments[i]) = ParamsOf(TopCall.function)[i].type_
           /\ \A j \in 1..Supplied : i < j => TopCall.arguments[i] < TopCall.arguments[j]

\* p(a: u32, b: bool) called as p(1u32, true) was converted: the first slot
\* holds the u32 constant and the second the bool constant.
C23_Witness ==
    /\ Converted
    /\ last.ok
    /\ input.value = AstCall(Id("p"), <<Val("u32"), Val("bool")>>)
    /\ TopCall.function = 11
    /\ TopCall.target = 0
    /\ exprs[TopCall.arguments[1]] = [Constant("u32") EXCEPT !.parent = exprs[TopCall.arguments[1]].parent]
    /\ exprs[TopCall.arguments[2]] = [Constant("bool") EXCEPT !.parent = exprs[TopCall.arguments[2]].parent]

\* The circuit name of `Circuit::member(...)` is bound in the scope chain.
CircuitBound ==
    \E s \in ChainOf(input.scope) : Callee.circuit.name \in DOMAIN Scopes[s].circuits

\* C24: `target.member(...)` whose converted target is not of a circuit
\* type fails with unexpected-type expecting `circuit`; `Circuit::member(...)`
\* fails with unexpected-type when the part before `::` is not an
\* identifier and with unresolved-circuit exactly when it is an identifier
\* no scope of the chain binds as a circuit; in both forms a member name
\* the circuit does not have fails with unresolved-circuit-member; every
\* other callee syntax fails with illegal-AST-structure.
C24_TargetShape ==
    Converted =>
      /\ (Form = "CircuitMemberAccess" /\ TargetExpr.ok
            /\ ~IsCircuitType(get_type(TargetExpr.arena, TargetExpr.val)))
           => /\ ~last.ok
              /\ last.err.kind = "unexpected_type"
              /\ last.err.expected = "circuit"
              /\ last.err.found = get_type(TargetExpr.arena, TargetExpr.val)
      /\ (Form = "CircuitStaticFunctionAccess" /\ Callee.circuit.node # "Identifier")
           => /\ ~last.ok
              /\ last.err.kind = "unexpected_type"
              /\ last.err.expected = "circuit"
      /\ Form = "CircuitStaticFunctionAccess"
           => ((Callee.circuit.node = "Identifier" /\ ~CircuitBound)
                 <=> (~last.ok /\ last.err.kind = "unresolved_circuit"))
      /\ (Form = "CircuitMemberAccess" /\ TargetExpr.ok
            /\ IsCircuitType(get_type(TargetExpr.arena, TargetExpr.val))
            /\ Callee.name \notin DOMAIN CircuitMembers(get_type(TargetExpr.arena, TargetExpr.val)))
           => ~last.ok /\ last.err.kind = "unresolved_circuit_member"
      /\ (Form = "CircuitStaticFunctionAccess" /\ Callee.circuit.node = "Identifier"
            /\ CircuitBound
            /\ Callee.name \notin DOMAIN CircuitMembers(resolve_circuit(input.scope,
                                                                        Callee.circuit.name)))
           => ~last.ok /\ last.err.kind = "unresolved_circuit_member"
      /\ Form \notin {"Identifier", "CircuitMemberAccess", "CircuitStaticFunctionAccess"}
           => ~last.ok /\ last.err.kind = "illegal_ast_structure"

\* x.m(...) on the u32 variable x failed with unexpected-type, expected
\* circuit, found u32.
C24_Witness ==
    /\ Converted
    /\ Callee = MemberAccess(Id("x"), "m")
    /\ ~last.ok
    /\ last.err.kind = "unexpected_type"
    /\ last.err.expected = "circuit"
    /\ last.err.found = "u32"

\* The i-th argument converts and satisfies the const constraint of its
\* parameter.
ArgumentOk(i) ==
    /\ PrefixConverted(i).ok
    /\ ConvertedArgument(i).ok
    /\ ParamsOf(Resolved.val.function)[i].const_
         => is_consty(ConvertedArgument(i).arena, ConvertedArgument(i).val)

\* C25: a failing conversion returns one error, the first of: the error of
\* the call form and target resolution; the expected-type mismatch; the
\* argument-count mismatch; the error of the leftmost failing argument,
\* its conversion error if it does not convert and its non-const error
\* otherwise; the call-test-function error.  When one of the first three
\* fails no argument has been converted: the arena holds what the target
\* resolution left.
C25_ErrorPrecedence ==
    Converted =>
      /\ last.ok <=> last.err = NoError
      /\ ~Resolved.ok
           => /\ ~last.ok
              /\ last.err = Resolved.err
              /\ exprs = Resolved.arena
      /\ (Resolved.ok /\ ~HintAccepts(Resolved.val.function))
           => /\ ~last.ok
              /\ last.err.kind = "unexpected_type"
              /\ last.err.span = <<>>
              /\ exprs = Resolved.arena
      /\ (Resolved.ok /\ HintAccepts(Resolved.val.function)
            /\ Supplied # Len(ParamsOf(Resolved.val.function)))
           => /\ ~last.ok
              /\ last.err.kind = "unexpected_call_argument_count"
              /\ exprs = Resolved.arena
      /\ ReachesArguments
           => /\ \A i \in 1..Supplied :
                   ((\A j \in 1..(i - 1) : ArgumentOk(j)) /\ ~ArgumentOk(i))
                   => /\ ~last.ok
                      /\ last.err = IF ~ConvertedArgument(i).ok
                                    THEN ConvertedArgument(i).err
                                    ELSE Error("unexpected_nonconst", <<i>>)
              /\ ((\A i \in 1..Supplied : ArgumentOk(i))
                    /\ HasTestAnnotation(Resolved.val.function))
                   => ~last.ok /\ last.err = Error("call_test_function", <<>>)
              /\ ((\A i \in 1..Supplied : ArgumentOk(i))
                    /\ ~HasTestAnnotation(Resolved.val.function))
                   => last.ok

\* The test function t(x: u32) called as t(zz, 1) with the expected type
\* bool violates the expected type, the argument count and the test rule;
\* the error is the unexpected-type error and nothing was converted.
C25_Witness ==
    /\ Converted
    /\ input.value = AstCall(Id("t"), <<Id("zz"), Val("u32")>>)
    /\ input.expected_type = PartialOf("bool")
    /\ ~last.ok
    /\ last.err.kind = "unexpected_type"
    /\ last.err.expected = "bool"
    /\ exprs = <<>>

\* C26: is_mut_ref() is true of every call expression; a member call
\* whose target is itself a call never fails with the mutability-violation
\* error, and a mut-self method invoked through such a target resolves.
C26_CallIsMutRef ==
    /\ \A i \in CallNodes : is_mut_ref(exprs, i)
    /\ (Converted /\ Form = "CircuitMemberAccess" /\ Callee.circuit.node = "Call")
         => /\ last.err.kind # "circuit_member_mut_call_invalid"
            /\ (MemberFormLookup /\ Member.kind = "Function"
                  /\ Functions[Member.body].qualifier = "MutSelfRef")
                 => /\ Resolved.ok
                    /\ Resolved.val.function = Member.body
                    /\ IsCall(Resolved.arena, Resolved.val.target)

\* g().set(1): the mut-self method set, invoked on the value the call g()
\* returns, was converted.
C26_Witness ==
    /\ Converted
    /\ input.value = AstCall(MemberAccess(AstCall(Id("g"), <<>>), "set"), <<Val("u32")>>)
    /\ last.ok
    /\ Functions[TopCall.function].qualifier = "MutSelfRef"
    /\ IsCall(exprs, TopCall.target)

----------------------------------------------------------------------------
(* The way back to syntax: impl Into<leo_ast::CallExpression>.             *)

\* impl Into<leo_ast::CallExpression> for &CallExpression, from the syntax
\* its target and its arguments convert to: a call with a target takes the
\* target's syntax as its callee, a call without one names its function,
\* through the circuit when the function belongs to one.
call_into(call, target_syntax, argument_syntax) ==
    AstCall(IF call.target # 0 THEN target_syntax
            ELSE IF Functions[call.function].circuit # ""
                 THEN StaticAccess(Id(Functions[call.function].circuit),
                                   Functions[call.function].name)
                 ELSE Id(Functions[call.function].name),
            argument_syntax)

RECURSIVE ExpressionInto(_, _)
\* impl Into<leo_ast::Expression> for &Expression
ExpressionInto(arena, i) ==
    CASE arena[i].kind = "Constant" -> Val(arena[i].type_)
      [] arena[i].kind = "VariableRef" -> Id(Variables[arena[i].variable].name)
      [] OTHER ->
           call_into(arena[i],
                     IF arena[i].target # 0 THEN ExpressionInto(arena, arena[i].target)
                     ELSE <<>>,
                     [k \in 1..Len(arena[i].arguments) |->
                         ExpressionInto(arena, arena[i].arguments[k])])

\* A converted call is turned back into syntax and that syntax is converted
\* again in the same scope with the same expected type.
RoundTrip ==
    /\ last.op = "from_ast"
    /\ last.ok
    /\ outcome.op = "none"
    /\ LET r == CallFromAst(exprs, input.scope, ExpressionInto(exprs, last.expr),
                            input.expected_type, <<>>) IN
       /\ exprs' = IF r.ok THEN Append(r.arena, r.val) ELSE r.arena
       /\ outcome' = [op |-> "round_trip", syntax |-> ExpressionInto(exprs, last.expr),
                      ok |-> r.ok, err |-> r.err,
                      expr |-> IF r.ok THEN Len(r.arena) + 1 ELSE 0]
    /\ UNCHANGED <<input, last, rewrites, context, program, operands, compiler>>

NextRoundTrip ==
    \/ FromAst
    \/ RoundTrip

SpecRoundTrip == Init /\ [][NextRoundTrip]_vars

\* C27 (as stated): every converted call, of each of the three call forms,
\* turned back into syntax and converted again in the same scope, converts
\* to a call of the same function, with a target exactly when the first
\* had one and with the same number of arguments.
C27_RoundTrip ==
    outcome.op = "round_trip"
    => /\ outcome.ok
       /\ exprs[outcome.expr].function = TopCall.function
       /\ exprs[outcome.expr].target # 0 <=> TopCall.target # 0
       /\ Len(exprs[outcome.expr].arguments) = Len(TopCall.arguments)

----------------------------------------------------------------------------
(* Properties of scopes and ids in function construction.                  *)

RECURSIVE Within(_, _)
\* Scope s is `outer` or nested in it.
Within(s, outer) ==
    IF s = 0 THEN FALSE
    ELSE s = outer \/ Within(context.scopes[s].parent_scope, outer)

\* fill_from_ast bound the parameters of function k.
ParametersBound(k) == program[k].state \in {"filled", "fill_failed"}

ParameterOf(k, name) ==
    FunctionOf(k).arguments[IndexMapGet(FunctionOf(k).arguments, name)].value

\* The binding of the variable x in the root scope.
OuterX == InitialContext.scopes[RootScope].variables["x"]

\* C17: once a function's parameters are bound, resolution of a parameter
\* name from the function's own scope returns the parameter, also when an
\* outer scope binds the name; resolution from the scope the function was
\* declared in, from the root and from any scope outside the function
\* never returns the parameter, and the outer binding of x is what the
\* outer scopes resolve x to throughout.
C17_ScopeShadowing ==
    /\ scope_resolve_variable(context, RootScope, "x") = OuterX
    /\ scope_resolve_variable(context, CircuitScope, "x") = OuterX
    /\ \A k \in 1..Len(program) :
         ParametersBound(k) =>
           \A n \in IndexMapKeys(FunctionOf(k).arguments) :
              /\ scope_resolve_variable(context, FunctionOf(k).scope, n) = ParameterOf(k, n)
              /\ context.variables[ParameterOf(k, n)].declaration = "Parameter"
              /\ \A s \in 1..Len(context.scopes) :
                   ~Within(s, FunctionOf(k).scope)
                     => scope_resolve_variable(context, s, n) # ParameterOf(k, n)
              /\ \A s \in 1..Len(context.scopes) :
                   (~Within(s, FunctionOf(k).scope) /\ n = "x"
                      /\ n \notin DOMAIN context.scopes[s].variables
                      /\ context.scopes[s].parent_scope \in {0, RootScope, CircuitScope})
                     => scope_resolve_variable(context, s, n) = OuterX

\* Two functions each took a parameter x while the root scope binds x: x
\* resolves to three different variables from the three scopes.
C17_Witness ==
    /\ ParametersBound(1) /\ ParametersBound(2)
    /\ "x" \in IndexMapKeys(FunctionOf(1).arguments)
    /\ "x" \in IndexMapKeys(FunctionOf(2).arguments)
    /\ scope_resolve_variable(context, FunctionOf(1).scope, "x") = ParameterOf(1, "x")
    /\ scope_resolve_variable(context, FunctionOf(2).scope, "x") = ParameterOf(2, "x")
    /\ ParameterOf(1, "x") # ParameterOf(2, "x")
    /\ ParameterOf(1, "x") # OuterX
    /\ scope_resolve_variable(context, RootScope, "x") = OuterX

\* The declaration of function k lists two parameters of one name.
HasDuplicateParameters(k) ==
    \E i, j \in 1..Len(program[k].value.input) :
       /\ i < j
       /\ program[k].value.input[i].kind = "Variable"
       /\ program[k].value.input[j].kind = "Variable"
       /\ program[k].value.input[i].identifier = program[k].value.input[j].identifier

\* C18 (as stated): declaring a name already present in the same scope's
\* table is a duplicate-definition error, also for the variables a function
\* declares into its own scope: a function two of whose parameters share a
\* name never completes construction (init followed by fill_from_ast), and
\* a constructed function has one parameter variable per declared
\* parameter; a redeclaration in a nested block scope is accepted.
C18_DuplicateIsError ==
    \A k \in 1..Len(program) :
       /\ HasDuplicateParameters(k) => program[k].state # "filled"
       /\ program[k].state = "filled"
            => Len(FunctionOf(k).arguments)
                 = Cardinality({i \in 1..Len(program[k].value.input) :
                                   program[k].value.input[i].kind = "Variable"})
       /\ (outcome.op = "fill_from_ast" /\ outcome.index = k
             /\ program[k].value.block = <<Definition("x", Val("u32")), Return(Id("x"))>>
             /\ "x" \in IndexMapKeys(FunctionOf(k).arguments))
            => outcome.err.kind # "duplicate_variable_definition"

\* The ids of the entities of the Context: variables, functions and scopes.
VariableIds == {context.variables[v].id : v \in 1..Len(context.variables)}
FunctionIds == {context.functions[f].id : f \in 1..Len(context.functions)}
ScopeIdsOf == {context.scopes[s].id : s \in 1..Len(context.scopes)}

\* The ids handed out by the last operation.
IssuedByLast ==
    {context.issued[i] : i \in (outcome.issued + 1)..Len(context.issued)}
IssuedBefore == {context.issued[i] : i \in 1..outcome.issued}

\* C19: no id is handed out twice; variables, functions and scopes all hold
\* different ids, whether or not the call that allocated them succeeded;
\* the function an init call creates, its parameter variables and the self
\* variable a fill_from_ast call creates hold ids handed out by that call,
\* none of them handed out before.
C19_IdsNeverReused ==
    outcome.op # "none" =>
      /\ \A i, j \in 1..Len(context.issued) :
           i # j => context.issued[i] # context.issued[j]
      /\ Cardinality(VariableIds) = Len(context.variables)
      /\ Cardinality(FunctionIds) = Len(context.functions)
      /\ Cardinality(ScopeIdsOf) = Len(context.scopes)
      /\ VariableIds \cap FunctionIds = {}
      /\ VariableIds \cap ScopeIdsOf = {}
      /\ FunctionIds \cap ScopeIdsOf = {}
      /\ IssuedByLast \cap IssuedBefore = {}
      /\ (outcome.op = "init" /\ outcome.ok)
           => /\ context.functions[outcome.function].id \in IssuedByLast
              /\ \A i \in 1..Len(context.functions[outcome.function].arguments) :
                   context.variables[
                       context.functions[outcome.function].arguments[i].value].id
                     \in IssuedByLast
      /\ (outcome.op = "fill_from_ast"
            /\ context.functions[outcome.function].qualifier # "Static")
           => context.variables[
                  context.scopes[context.functions[outcome.function].scope]
                      .variables["self"]].id \in IssuedByLast

\* An init call failed after it had allocated a parameter variable; the
\* member function registered and filled afterwards, its parameter and its
\* self variable took five further ids.
C19_Witness ==
    /\ program[1].state = "init_failed"
    /\ program[2].state = "filled"
    /\ outcome.op = "fill_from_ast"
    /\ context.functions[outcome.function].qualifier = "SelfRef"
    /\ Len(context.variables) = 4
    /\ Cardinality(VariableIds \cup FunctionIds \cup ScopeIdsOf)
         = Len(context.variables) + Len(context.functions) + Len(context.scopes)

\* The declaration the last init call registered, and its scope.
Declared == program[outcome.index].value
DeclaringScope == program[outcome.index].scope

\* The positions of the self keywords among the inputs of a declaration.
SelfKeywords(inputs) == {i \in 1..Len(inputs) : inputs[i].kind # "Variable"}

\* The qualifier the inputs call for: Static without a self keyword,
\* otherwise that of the self keyword (of the last one, if several).
DerivedQualifier(inputs) ==
    IF SelfKeywords(inputs) = {} THEN "Static"
    ELSE LET kind == inputs[CHOOSE i \in SelfKeywords(inputs) :
                               \A j \in SelfKeywords(inputs) : j <= i].kind
         IN CASE kind = "SelfKeyword" -> "SelfRef"
              [] kind = "ConstSelfKeyword" -> "ConstSelfRef"
              [] OTHER -> "MutSelfRef"

\* The written output type and the types of all inputs resolve.
TypesResolve(value) ==
    /\ value.output = "" \/ resolve_ast_type_ok(value.output)
    /\ \A i \in 1..Len(value.input) :
         value.input[i].kind = "Variable" => resolve_ast_type_ok(value.input[i].type_)

HasCircuit(scope) == InitialContext.scopes[scope].circuit_self # ""

\* Every back-reference from a scope to its enclosing function names a
\* function that was returned, whose scope it is.
BackReferences ==
    /\ \A s \in 1..Len(context.scopes) :
         context.scopes[s].function # 0
           => /\ context.scopes[s].function \in 1..Len(context.functions)
              /\ context.functions[context.scopes[s].function].scope = s
    /\ \A f \in 1..Len(context.functions) :
         context.scopes[context.functions[f].scope].function = f
    /\ Len(context.functions)
         = Cardinality({k \in 1..Len(program) : program[k].function # 0})

\* C28 (as stated): Function::init fails with invalid-self-in-global
\* exactly when the inputs call for a qualifier other than Static and the
\* declaring scope has no current circuit.
C28_SelfErrorExactly ==
    outcome.op = "init"
    => (outcome.err.kind = "invalid_self_in_global"
          <=> (DerivedQualifier(Declared.input) # "Static" /\ ~HasCircuit(DeclaringScope)))

\* C28 (amended): Function::init fails with invalid-self-in-global exactly
\* when the output type and the types of all inputs resolve, the inputs
\* call for a qualifier other than Static and the declaring scope has no
\* current circuit; a type that does not resolve fails the call first.  A
\* failed call returns no Function and sets no back-reference; a
\* successful call returns a Function with the derived qualifier whose own
\* scope, a subscope of the declaring scope, refers back to it.
C28_SelfQualifier ==
    /\ outcome.op \in {"init", "fill_from_ast"} => BackReferences
    /\ outcome.op = "init"
         => /\ outcome.err.kind = "invalid_self_in_global"
                 <=> /\ TypesResolve(Declared)
                     /\ DerivedQualifier(Declared.input) # "Static"
                     /\ ~HasCircuit(DeclaringScope)
            /\ ~TypesResolve(Declared)
                 => ~outcome.ok /\ outcome.err.kind # "invalid_self_in_global"
            /\ outcome.ok
                 <=> /\ TypesResolve(Declared)
                     /\ DerivedQualifier(Declared.input) = "Static" \/ HasCircuit(DeclaringScope)
            /\ ~outcome.ok
                 => /\ outcome.function = 0
                    /\ program[outcome.index].function = 0
            /\ outcome.ok
                 => /\ context.functions[outcome.function].qualifier
                         = DerivedQualifier(Declared.input)
                    /\ context.scopes[context.functions[outcome.function].scope].function
                         = outcome.function
                    /\ context.scopes[context.functions[outcome.function].scope].parent_scope
                         = DeclaringScope

\* f(mut self) declared in the root scope failed with
\* invalid-self-in-global: its subscope exists, no Function does, and no
\* scope refers back to a function.
C28_Witness ==
    /\ outcome.op = "init"
    /\ outcome.index = 1
    /\ DeclaringScope = RootScope
    /\ Declared.input = <<SelfInput("MutSelfKeyword")>>
    /\ outcome.err.kind = "invalid_self_in_global"
    /\ outcome.function = 0
    /\ context.functions = <<>>
    /\ Len(context.scopes) = 3
    /\ \A s \in 1..Len(context.scopes) : context.scopes[s].function = 0

\* The name table of the own scope of function k.
OwnVariables(k) == context.scopes[FunctionOf(k).scope].variables

----------------------------------------------------------------------------
(* The compiler driver (leo-compiler, compiler.rs).  `events` lists what   *)
(* the last operation invoked, in order.                                   *)

\* Largest number of programs one Compiler parses.
MaxParses == 2

Event(what, asg) == [what |-> what, asg |-> asg]

\* Compiler::parse_program_from_string: the file's lines are cached, then
\* the parser, then Asg::new; the syntax tree is stored before the graph is
\* built and the graph only when Asg::new succeeded.
parse_program_from_string(self, parsed, built) ==
    IF ~parsed
    THEN [self EXCEPT !.file_contents = @ \cup {"main"}, !.parses = @ + 1,
                      !.result = "parser_error", !.events = <<>>]
    ELSE IF ~built
    THEN [self EXCEPT !.file_contents = @ \cup {"main"}, !.parses = @ + 1,
                      !.program = self.parses + 1,
                      !.result = "asg_error", !.events = <<Event("Asg::new", 0)>>]
    ELSE [self EXCEPT !.file_contents = @ \cup {"main"}, !.parses = @ + 1,
                      !.program = self.parses + 1, !.asg = self.parses + 1,
                      !.result = "ok", !.events = <<Event("Asg::new", self.parses + 1)>>]

\* Compiler::parse_program: the main file is read, then parsed as above.
parse_program(self, read, parsed, built) ==
    IF ~read
    THEN [self EXCEPT !.op = "parse_program", !.result = "file_read_error",
                      !.events = <<>>]
    ELSE [parse_program_from_string(self, parsed, built) EXCEPT !.op = "parse_program"]

\* do_asg_passes running the pass without asserting that a graph is stored.
do_asg_passes_Unasserted(self, pass_ok) ==
    IF self.options.constant_folding_enabled
    THEN [result |-> IF pass_ok THEN "ok" ELSE "asg_pass_error",
          events |-> <<Event("do_asg_passes", self.asg),
                       Event("ConstantFolding", self.asg)>>]
    ELSE [result |-> "ok", events |-> <<Event("do_asg_passes", self.asg)>>]

\* Compiler::do_asg_passes: the assertion that a graph is stored, then the
\* constant-folding pass when it is enabled.
do_asg_passes(self, pass_ok) ==
    IF self.asg = 0
    THEN [result |-> "panic", events |-> <<Event("do_asg_passes", self.asg)>>]
    ELSE IF self.options.constant_folding_enabled
    THEN [result |-> IF pass_ok THEN "ok" ELSE "asg_pass_error",
          events |-> <<Event("do_asg_passes", self.asg),
                       Event("ConstantFolding", self.asg)>>]
    ELSE [result |-> "ok", events |-> <<Event("do_asg_passes", self.asg)>>]

\* Compiler::compile_constraints, once do_asg_passes returned: constraint
\* generation reads the graph; an error that names a file has the file's
\* content resolved and cached.
GenerateConstraints(self, passes, generated, error_path) ==
    IF passes.result # "ok"
    THEN [self EXCEPT !.result = passes.result, !.events = passes.events]
    ELSE [self EXCEPT
            !.result = IF generated THEN "ok" ELSE "compiler_error",
            !.events = Append(passes.events, Event("generate_constraints", self.asg)),
            !.file_contents = IF generated THEN @ ELSE @ \cup error_path]

\* Compiler::compile_constraints
compile_constraints(self, pass_ok, generated, error_path) ==
    [GenerateConstraints(self, do_asg_passes(self, pass_ok), generated, error_path)
     EXCEPT !.op = "compile_constraints"]

\* Compiler::compile_test_constraints: takes the Compiler by value.
compile_test_constraints(self, pass_ok, generated) ==
    [GenerateConstraints(self, do_asg_passes(self, pass_ok), generated, {})
     EXCEPT !.op = "compile_test_constraints", !.alive = FALSE]

InitCompiler ==
    /\ exprs = <<>>
    /\ input = [scope |-> 1, value |-> AstCall(Id("f"), <<>>), expected_type |-> NoExpected]
    /\ last = Idle
    /\ rewrites = 0
    /\ context = <<>>
    /\ program = <<>>
    /\ outcome = NoOutcome
    /\ operands = <<>>
    /\ compiler = NoCompiler

\* Compiler::new
New ==
    /\ ~compiler.alive
    /\ compiler' = [alive |-> TRUE, program |-> 0, asg |-> 0, options |-> DefaultOptions,
                    file_contents |-> {}, parses |-> 0, op |-> "new", result |-> "ok",
                    events |-> <<>>]
    /\ UNCHANGED <<exprs, input, last, rewrites, context, program, outcome, operands>>

\* Compiler::set_options
SetOptions ==
    /\ compiler.alive
    /\ \E enabled \in BOOLEAN :
          compiler' = [compiler EXCEPT !.options = [constant_folding_enabled |-> enabled],
                                       !.op = "set_options", !.result = "ok",
                                       !.events = <<>>]
    /\ UNCHANGED <<exprs, input, last, rewrites, context, program, outcome, operands>>

ParseProgram ==
    /\ compiler.alive
    /\ compiler.parses < MaxParses
    /\ \E read \in BOOLEAN, parsed \in BOOLEAN, built \in BOOLEAN :
          compiler' = parse_program(compiler, read, parsed, built)
    /\ UNCHANGED <<exprs, input, last, rewrites, context, program, outcome, operands>>

ParseProgramFromString ==
    /\ compiler.alive
    /\ compiler.parses < MaxParses
    /\ \E parsed \in BOOLEAN, built \in BOOLEAN :
          compiler' = [parse_program_from_string(compiler, parsed, built)
                       EXCEPT !.op = "parse_program_from_string"]
    /\ UNCHANGED <<exprs, input, last, rewrites, context, program, outcome, operands>>

\* A failed assertion unwinds out of the call; the Compiler was only
\* borrowed and remains.
CompileConstraints ==
    /\ compiler.alive
    /\ \E pass_ok \in BOOLEAN, generated \in BOOLEAN, error_path \in {{}, {"main"}, {"import"}} :
          compiler' = compile_constraints(compiler, pass_ok, generated, error_path)
    /\ UNCHANGED <<exprs, input, last, rewrites, context, program, outcome, operands>>

CompileTestConstraints ==
    /\ compiler.alive
    /\ \E pass_ok \in BOOLEAN, generated \in BOOLEAN :
          compiler' = compile_test_constraints(compiler, pass_ok, generated)
    /\ UNCHANGED <<exprs, input, last, rewrites, context, program, outcome, operands>>

NextCompiler ==
    \/ New
    \/ SetOptions
    \/ ParseProgram
    \/ ParseProgramFromString
    \/ CompileConstraints
    \/ CompileTestConstraints

SpecCompiler == InitCompiler /\ [][NextCompiler]_vars

Compiling == compiler.op \in {"compile_constraints", "compile_test_constraints"}

EventsNamed(what) == {i \in 1..Len(compiler.events) : compiler.events[i].what = what}

\* C20: in every sequence of Compiler operations the constant-folding pass
\* is invoked only by the two compile operations and only on a stored graph
\* (asg is Some), a graph that Asg::new built from a parsed program;
\* constraint generation reads the graph only after do_asg_passes returned
\* Ok, so after the pass whenever the pass is enabled; without a stored
\* graph neither the pass nor constraint generation is invoked.
C20_PassesAfterConstruction ==
    /\ \A i \in EventsNamed("ConstantFolding") :
         /\ Compiling
         /\ compiler.events[i].asg # 0
         /\ compiler.asg = compiler.events[i].asg
         /\ compiler.asg <= compiler.program
         /\ compiler.options.constant_folding_enabled
    /\ \A i \in EventsNamed("generate_constraints") :
         /\ Compiling
         /\ compiler.events[i].asg # 0
         /\ i > 1
         /\ compiler.events[1].what = "do_asg_passes"
         /\ compiler.options.constant_folding_enabled
              => /\ i = 3
                 /\ compiler.events[2].what = "ConstantFolding"
         /\ EventsNamed("ConstantFolding") # {}
              => \A j \in EventsNamed("ConstantFolding") : j < i
    /\ (Compiling /\ compiler.asg = 0)
         => /\ EventsNamed("ConstantFolding") = {}
            /\ EventsNamed("generate_constraints") = {}
    /\ (Compiling /\ compiler.asg # 0 /\ compiler.options.constant_folding_enabled)
         => EventsNamed("ConstantFolding") # {}

\* After a second parse whose graph construction failed, compile_constraints
\* ran the pass on the graph of the first program and then generated
\* constraints from it.
C20_Witness ==
    /\ compiler.op = "compile_constraints"
    /\ compiler.program = 2
    /\ compiler.asg = 1
    /\ compiler.result = "ok"
    /\ compiler.events = <<Event("do_asg_passes", 1), Event("ConstantFolding", 1),
                           Event("generate_constraints", 1)>>

----------------------------------------------------------------------------
(* Tuple access in constraint synthesis (leo-compiler,                     *)
(* expression/tuple/access.rs).                                            *)

\* Largest length of a tuple value and largest index accessed.
MaxTupleLen == 2
MaxIndex == 3
\* Width of usize in the model, in bits.
UsizeBits == 4

UsizeModulus == 2 ^ UsizeBits

\* usize subtraction as a build without overflow checks computes it.
wrapping_sub(a, b) == (a + UsizeModulus - b) % UsizeModulus

AccessError(kind, index) ==
    [op |-> "", result |-> "err", error |-> kind, index |-> index, value |-> ""]
AccessPanic(message) ==
    [op |-> "", result |-> "panic", error |-> message, index |-> 0, value |-> ""]

\* ConstrainedProgram::enforce_tuple_access, from what enforce_expression
\* returned for the tuple expression.  `tuple.len() - 1` on usize panics
\* when overflow checks are compiled in and wraps when they are not;
\* indexing a Vec past its end panics.
enforce_tuple_access(evaluated, index, overflow_checks) ==
    IF evaluated.kind = "Err" THEN AccessError(evaluated.error, 0)
    ELSE IF evaluated.kind # "Tuple" THEN AccessError("undefined_array", 0)
    ELSE IF Len(evaluated.tuple) = 0 /\ overflow_checks
    THEN AccessPanic("attempt to subtract with overflow")
    ELSE IF index > wrapping_sub(Len(evaluated.tuple), 1)
    THEN AccessError("tuple_index_out_of_bounds", index)
    ELSE IF index >= Len(evaluated.tuple)
    THEN AccessPanic("index out of bounds")
    ELSE [op |-> "", result |-> "ok", error |-> "", index |-> index,
          value |-> evaluated.tuple[index + 1]]

\* What enforce_expression returns: a tuple of values, a value of another
\* kind, or an error.
EvaluatedValues ==
    {[kind |-> "Tuple", tuple |-> t, error |-> ""] : t \in SeqsUpTo({"a", "b"}, MaxTupleLen)}
    \cup {[kind |-> k, tuple |-> <<>>, error |-> ""] : k \in {"Integer", "Boolean"}}
    \cup {[kind |-> "Err", tuple |-> <<>>, error |-> "expression_error"]}

InitTuple ==
    /\ exprs = <<>>
    /\ input = [scope |-> 1, value |-> AstCall(Id("f"), <<>>), expected_type |-> NoExpected]
    /\ last = Idle
    /\ rewrites = 0
    /\ context = <<>>
    /\ program = <<>>
    /\ outcome = NoOutcome
    /\ operands \in [evaluated : EvaluatedValues, index : 0..MaxIndex,
                     overflow_checks : BOOLEAN]
    /\ compiler = NoCompiler

EnforceTupleAccess ==
    /\ outcome.op = "none"
    /\ outcome' = [enforce_tuple_access(operands.evaluated, operands.index,
                                        operands.overflow_checks)
                   EXCEPT !.op = "enforce_tuple_access"]
    /\ UNCHANGED <<exprs, input, last, rewrites, context, program, operands, compiler>>

SpecTuple == InitTuple /\ [][EnforceTupleAccess]_vars

\* C30 (as stated): for every tuple of length L >= 0 and every index i the
\* access returns element i when i < L and the tuple-index-out-of-bounds
\* error when i >= L, and never panics, the empty tuple included; a value
\* that is not a tuple gives the undefined-array error.
C30_TupleAccessTotal ==
    outcome.op = "enforce_tuple_access"
    => /\ outcome.result # "panic"
       /\ operands.evaluated.kind = "Tuple"
            => IF operands.index < Len(operands.evaluated.tuple)
               THEN /\ outcome.result = "ok"
                    /\ outcome.value = operands.evaluated.tuple[operands.index + 1]
               ELSE /\ outcome.result = "err"
                    /\ outcome.error = "tuple_index_out_of_bounds"
       /\ operands.evaluated.kind \notin {"Tuple", "Err"}
            => outcome.result = "err" /\ outcome.error = "undefined_array"

====
